---- MODULE Spec2Model ----
(***************************************************************************)
(* Model of the gourmet-support avatar pipeline: the point-cloud loader    *)
(* and rigger (gvrm-format/ply.ts, auto-calibration.ts), the splat viewer  *)
(* (gvrm-format/gs.ts), the pose solver (VRMManager) and the frame loop    *)
(* and asset load of GVRM (gvrm-format/gvrm.ts).                           *)
(*                                                                         *)
(* Numbers.  The code computes in IEEE doubles/floats.  The model uses     *)
(* fixed point: lengths are integers in millimetres (1.70 is 1700),        *)
(* sines are integers in thousandths, angles in quarter degrees.  A        *)
(* quotient is rounded down to the grid once, where the code rounds to     *)
(* the nearest double.  Values that are NaN or +-Infinity in the code are  *)
(* the value NonFinite.                                                    *)
(***************************************************************************)
EXTENDS Integers, Sequences, FiniteSets, TLC

(***************************************************************************)
(* Bounds of the model.                                                    *)
(***************************************************************************)
MaxSmallPts == 3

(***************************************************************************)
(* State.  The GVRM instance with its loadAssets calls and frame loop,     *)
(* and, each on its own, a run of the point-cloud loader, a viewer, a      *)
(* display, a KDTree query and the render passes of a tick.                *)
(***************************************************************************)
VARIABLES
    loads,                  \* the loadAssets calls: where each one is suspended
    tdInitialized,          \* TemplateDecoder.initialized
    ieInitialized,          \* ImageEncoder.initialized
    rfInitialized,          \* NeuralRefiner.initialized
    idEmbedding,            \* 0: the 0.5 fill; c: the embedding call c extracted
    isReady,
    viewer,                 \* 0: null; c: the viewer call c created
    viewers,                \* the viewers created, by creating call
    sceneMeshes,            \* the meshes added to the scene, in order
    frameCount,
    isFirstFrameProcessed,
    lastRefinedRgb,         \* 0: null; k: the image of refiner call k
    refineLog,              \* the refiner.process calls made so far: the
                            \* viewer each one rendered
    pending,                \* the refiner calls not yet settled
    ticksOf,                \* rendered ticks per current viewer
    lipSyncLevel,           \* VRMManager._lipSyncLevel
    jawRotX,                \* VRMManager.localRotations[22].x
    display,                \* WebGLDisplay: the captured range and the texture
    vrmMatrices,            \* VRMManager.matrices
    rafScheduled            \* frame callbacks requested and not yet run

gvrmVars ==
    <<loads, tdInitialized, ieInitialized, rfInitialized, idEmbedding, isReady,
      viewer, viewers, sceneMeshes, frameCount, isFirstFrameProcessed,
      lastRefinedRgb, refineLog, pending, ticksOf, lipSyncLevel, jawRotX,
      display, vrmMatrices, rafScheduled>>

instanceVars ==
    <<tdInitialized, ieInitialized, rfInitialized, idEmbedding, isReady, viewer,
      viewers, sceneMeshes>>

frameVars ==
    <<frameCount, isFirstFrameProcessed, lastRefinedRgb, refineLog, pending,
      ticksOf, jawRotX, display, vrmMatrices, rafScheduled>>

\* a run of PLYLoader.load: the file, the result, and the result of loading
\* the file with two of its records exchanged
VARIABLES plyFile, plyPc, plyResult, plySwap, plyPermuted

plyVars == <<plyFile, plyPc, plyResult, plySwap, plyPermuted>>

\* a GSViewer and the last updateLatentTile call made on it
VARIABLES gs, gsCall

viewerVars == <<gs, gsCall>>

\* a WebGLDisplay on its own and the last display call made on it
VARIABLES wd, wdCall

displayVars == <<wd, wdCall>>

\* a KDTree query: the points, the query, and the answers of the tree and
\* of the brute-force scan
VARIABLES kdIn, kdOut

kdVars == <<kdIn, kdOut>>

\* the synchronous part of a frame tick on its own: the instance as the
\* tick sees it (the viewers whose meshes are in the scene, this.viewer,
\* the pose solver) and what the latest tick rendered
VARIABLES gv, rendered

renderVars == <<gv, rendered>>

\* an AudioManager (au), its startStreaming calls (auCalls) and what the
\* socket and the stop callback have seen (auLog)
VARIABLES au, auCalls, auLog

audioVars == <<au, auCalls, auLog>>

vars ==
    <<gvrmVars, plyVars, viewerVars, displayVars, kdVars, renderVars, audioVars>>

\* what the actions of one part leave alone
offGvrm == <<plyVars, viewerVars, displayVars, kdVars, renderVars,
    audioVars>>

offPly == <<gvrmVars, viewerVars, displayVars, kdVars, renderVars,
    audioVars>>

offViewer == <<gvrmVars, plyVars, displayVars, kdVars, renderVars,
    audioVars>>

offDisplay == <<gvrmVars, plyVars, viewerVars, kdVars, renderVars,
    audioVars>>

offKd == <<gvrmVars, plyVars, viewerVars, displayVars, renderVars,
    audioVars>>

offRender == <<gvrmVars, plyVars, viewerVars, displayVars, kdVars,
    audioVars>>

offAudio == <<gvrmVars, plyVars, viewerVars, displayVars, kdVars, renderVars>>

(***************************************************************************)
(* Arithmetic helpers.                                                     *)
(***************************************************************************)
\* NaN and +-Infinity: an integer no coordinate of the model reaches
NonFinite == -999999999

Infinity == 2000000000

Abs(a) == IF a < 0 THEN -a ELSE a

Max2(a, b) == IF a >= b THEN a ELSE b

Min2(a, b) == IF a <= b THEN a ELSE b

RECURSIVE SqrtSearch(_, _, _)
SqrtSearch(v, lo, hi) ==
    IF lo >= hi THEN lo
    ELSE LET mid == (lo + hi + 1) \div 2
         IN IF mid * mid <= v THEN SqrtSearch(v, mid, hi)
                              ELSE SqrtSearch(v, lo, mid - 1)

\* Math.sqrt on the millimetre grid
Sqrt(v) == SqrtSearch(v, 0, 40000)

\* sin of an angle of the first quadrant, in thousandths; the angle is in
\* quarter degrees (only the angles the template generator uses)
SinTable ==
    0 :> 0 @@ 24 :> 105 @@ 36 :> 156 @@ 45 :> 195 @@ 72 :> 309 @@ 90 :> 383
    @@ 96 :> 407 @@ 108 :> 454 @@ 120 :> 500 @@ 135 :> 556 @@ 144 :> 588
    @@ 168 :> 669 @@ 180 :> 707 @@ 192 :> 743 @@ 216 :> 809 @@ 225 :> 831
    @@ 240 :> 866 @@ 252 :> 891 @@ 264 :> 914 @@ 270 :> 924 @@ 288 :> 951
    @@ 315 :> 981 @@ 324 :> 988 @@ 336 :> 995 @@ 360 :> 1000

\* Math.sin, for angles in -90..180 degrees
Sin(q) ==
    IF q < 0 THEN -SinTable[-q]
    ELSE IF q <= 360 THEN SinTable[q]
    ELSE SinTable[720 - q]

\* Math.cos, for angles in -90..180 degrees
Cos(q) ==
    IF q < 0 THEN SinTable[360 + q]
    ELSE IF q <= 360 THEN SinTable[360 - q]
    ELSE -SinTable[q - 360]

\* the sum of a sequence of integers (integer addition is associative, so
\* the halves are summed apart to keep the evaluation shallow)
RECURSIVE SumSeq(_)
SumSeq(s) ==
    IF s = <<>> THEN 0
    ELSE IF Len(s) = 1 THEN s[1]
    ELSE SumSeq(SubSeq(s, 1, Len(s) \div 2))
         + SumSeq(SubSeq(s, Len(s) \div 2 + 1, Len(s)))

\* the place of element i in the sorted array: after every element of a
\* smaller key and after the earlier elements of the same key (stable)
SortedPlace(s, k) ==
    [i \in 1..Len(s) |->
        1 + Cardinality({j \in 1..Len(s) :
                            \/ s[j][k] < s[i][k]
                            \/ (s[j][k] = s[i][k] /\ j < i)})]

\* Array.prototype.sort((a, b) => a[k] - b[k]): a stable sort on coordinate k
SortByCoord(s, k) ==
    LET place == SortedPlace(s, k)
    IN [r \in 1..Len(s) |-> s[CHOOSE i \in 1..Len(s) : place[i] = r]]

\* Array.prototype.slice(from, to), 0-based, to exclusive
Slice(s, from, to) == SubSeq(s, from + 1, Min2(to, Len(s)))

(***************************************************************************)
(* Point-cloud file: the header lines and the binary payload, one entry    *)
(* per little-endian float32.                                              *)
(***************************************************************************)
ElementVertex(n) == [kw |-> "element vertex", arg |-> n]

PropertyFloat(name) == [kw |-> "property float", arg |-> name]

\* a parser that takes a header without the token for one of 0 vertices
matchVertexCountOrZero(header) ==
    IF SelectSeq(header, LAMBDA l : l.kw = "element vertex") = <<>>
    THEN <<ElementVertex(0)>>
    ELSE SelectSeq(header, LAMBDA l : l.kw = "element vertex")

\* headerText.match(/element vertex (\d+)/)
matchVertexCount(header) == SelectSeq(header, LAMBDA l : l.kw = "element vertex")

\* the names of the 'property float' lines, in declared order
propsOf(header) ==
    LET fl == SelectSeq(header, LAMBDA l : l.kw = "property float")
    IN [k \in 1..Len(fl) |-> fl[k].arg]

\* Array.prototype.indexOf: 0-based, -1 when absent
indexOf(props, n) ==
    IF \E k \in 1..Len(props) : props[k] = n
    THEN (CHOOSE k \in 1..Len(props) :
              props[k] = n /\ \A j \in 1..(k - 1) : props[j] # n) - 1
    ELSE -1

\* DataView.getFloat32 throws a RangeError outside the buffer
inBuffer(data, byteOffset) == byteOffset >= 0 /\ byteOffset + 4 <= 4 * Len(data)

getFloat32(data, byteOffset) == data[(byteOffset \div 4) + 1]

(***************************************************************************)
(* AutoCalibration                                                         *)
(***************************************************************************)
RECURSIVE MinCoord(_, _)
MinCoord(P, k) ==
    IF Len(P) = 1 THEN P[1][k]
    ELSE Min2(MinCoord(SubSeq(P, 1, Len(P) \div 2), k),
              MinCoord(SubSeq(P, Len(P) \div 2 + 1, Len(P)), k))

RECURSIVE MaxCoord(_, _)
MaxCoord(P, k) ==
    IF Len(P) = 1 THEN P[1][k]
    ELSE Max2(MaxCoord(SubSeq(P, 1, Len(P) \div 2), k),
              MaxCoord(SubSeq(P, Len(P) \div 2 + 1, Len(P)), k))

\* min, max and size of the positions; the centre is kept doubled
\* (min + max) so that it stays on the grid.  An empty cloud leaves the
\* +-Infinity the code starts from.
computeBoundingBox(P) ==
    IF P = <<>> \/ \E i \in 1..Len(P) : P[i][2] = NonFinite
    THEN [min |-> <<NonFinite, NonFinite, NonFinite>>,
          max |-> <<NonFinite, NonFinite, NonFinite>>,
          center2 |-> <<NonFinite, NonFinite, NonFinite>>,
          size |-> <<NonFinite, NonFinite, NonFinite>>]
    ELSE LET mn == [k \in 1..3 |-> MinCoord(P, k)]
             mx == [k \in 1..3 |-> MaxCoord(P, k)]
         IN [min |-> mn, max |-> mx,
             center2 |-> [k \in 1..3 |-> mn[k] + mx[k]],
             size |-> [k \in 1..3 |-> mx[k] - mn[k]]]

\* scaleFactor = targetHeight / rawHeight, kept as the exact ratio
computeAdaptiveScale(bbox, targetHeight) ==
    [scaleNum |-> targetHeight, scaleDen |-> bbox.size[2],
     normalizedHeight |-> targetHeight]

\* v * scaleFactor
timesScale(v, scaleInfo) == (v * scaleInfo.scaleNum) \div scaleInfo.scaleDen

\* Y centred like X and Z instead of floor-aligned
normalizePointCentred(raw, bbox, scaleInfo) ==
    [k \in 1..3 |->
        ((2 * raw[k] - bbox.center2[k]) * scaleInfo.scaleNum)
            \div (2 * scaleInfo.scaleDen)]

\* Pass 2 of load: centred on X and Z, floor-aligned on Y, scaled
normalizePoint(raw, bbox, scaleInfo) ==
    <<((2 * raw[1] - bbox.center2[1]) * scaleInfo.scaleNum) \div (2 * scaleInfo.scaleDen),
      timesScale(raw[2] - bbox.min[2], scaleInfo),
      ((2 * raw[3] - bbox.center2[3]) * scaleInfo.scaleNum) \div (2 * scaleInfo.scaleDen)>>

(***************************************************************************)
(* PLYLoader.detectBonePositions                                           *)
(***************************************************************************)
\* a comparison with NaN is false, so a point with a NaN coordinate passes
\* none of the filters below
finitePoints(points) == SelectSeq(points, LAMBDA q : q[2] # NonFinite)

\* getPointsInRange(minY, maxY); the two bounds are given times 100
getPointsInRange(points, minY100, maxY100) ==
    SelectSeq(points, LAMBDA q : 100 * q[2] >= minY100 /\ 100 * q[2] <= maxY100)

computeCentroid(pts) ==
    IF pts = <<>> THEN <<0, 0, 0>>
    ELSE [k \in 1..3 |-> SumSeq([i \in 1..Len(pts) |-> pts[i][k]]) \div Len(pts)]

computeStdDev(pts, k) ==
    IF pts = <<>> THEN 100
    ELSE LET mean == SumSeq([i \in 1..Len(pts) |-> pts[i][k]]) \div Len(pts)
             variance == SumSeq([i \in 1..Len(pts) |->
                                    (pts[i][k] - mean) * (pts[i][k] - mean)])
                         \div Len(pts)
         IN Sqrt(variance)

BonePosition(position, radius) == [position |-> position, radius |-> radius]

\* the points near the neck, above it by at most 0.08, in front of it and
\* narrow around its X
jawRegionPoints(points, neckCenter) ==
    SelectSeq(points, LAMBDA q :
        /\ q[2] >= neckCenter[2] /\ q[2] <= neckCenter[2] + 80
        /\ q[3] > neckCenter[3] + 20
        /\ Abs(q[1] - neckCenter[1]) < 80)

\* the ten lowest points of the jaw region, whatever their number
jawCandidatesTen(points, neckCenter) ==
    Slice(SortByCoord(jawRegionPoints(points, neckCenter), 2), 0, 10)

\* sortedJawPoints.slice(0, Math.max(10, Math.floor(length * 0.2)))
jawCandidates(points, neckCenter) ==
    LET sortedJawPoints == SortByCoord(jawRegionPoints(points, neckCenter), 2)
    IN Slice(sortedJawPoints, 0, Max2(10, Len(sortedJawPoints) \div 5))

jawFallback(neckCenter) ==
    BonePosition(<<neckCenter[1], neckCenter[2] + 50, neckCenter[3] + 80>>, 40)

\* the candidates' centroid taken also when there are too few of them
jawPositionNoFallback(points, neckCenter) ==
    BonePosition(computeCentroid(jawCandidates(points, neckCenter)), 40)

\* console.warn('[BoneDetect] Jaw detection fallback activated')
jawWarns(points, neckCenter) ==
    LET cand == jawCandidates(points, neckCenter)
    IN Len(cand) < 5 \/ computeCentroid(cand)[2] < neckCenter[2]

jawPosition(points, neckCenter) ==
    LET cand == jawCandidates(points, neckCenter)
        jawCenter == computeCentroid(cand)
    IN IF Len(cand) < 5 \/ jawCenter[2] < neckCenter[2]
       THEN jawFallback(neckCenter)
       ELSE BonePosition(jawCenter, 40)

\* the chest-height points sorted by X
shoulderSortedByX(points, shoulderHeight) ==
    SortByCoord(getPointsInRange(points, 100 * (shoulderHeight - 50),
                                 100 * (shoulderHeight + 50)), 1)

leftShoulderPoints(sortedByX) ==
    Slice(sortedByX, (4 * Len(sortedByX)) \div 5, Len(sortedByX))

rightShoulderPoints(sortedByX) == Slice(sortedByX, 0, Len(sortedByX) \div 5)

BoneSet == {0, 3, 9, 12, 15, 16, 17, 22}

\* the keys of the result in Object.entries order (integer keys ascending)
BoneOrder == <<0, 3, 9, 12, 15, 16, 17, 22>>

detectBonePositions(positions, height) ==
    LET points == finitePoints(positions)
        band(lo, hi, floor) ==
            LET pts == getPointsInRange(points, lo * height, hi * height)
            IN BonePosition(computeCentroid(pts),
                            Max2(computeStdDev(pts, 1), floor))
        hips == band(50, 65, 120)
        spine1 == band(60, 75, 140)
        chest == band(75, 88, 150)
        neck == band(88, 93, 60)
        head == band(90, 100, 100)
        sortedByX == shoulderSortedByX(points, chest.position[2])
    IN 0 :> hips @@ 3 :> spine1 @@ 9 :> chest @@ 12 :> neck @@ 15 :> head
       @@ 16 :> BonePosition(computeCentroid(leftShoulderPoints(sortedByX)), 60)
       @@ 17 :> BonePosition(computeCentroid(rightShoulderPoints(sortedByX)), 60)
       @@ 22 :> jawPosition(points, neck.position)

(***************************************************************************)
(* PLYLoader.generateTemplatePoints                                        *)
(***************************************************************************)
templateDensity(boneIdx) ==
    IF boneIdx = 22 THEN 8 ELSE IF boneIdx = 15 THEN 5 ELSE 4

\* radius * a * b with the two sines in thousandths
scaled(radius, a, b) == (radius * a * b) \div 1000000

\* the (density + 1)^2 template points <<x, y, z, bone>> of one bone, in
\* the order they are pushed (i outer, j inner)
addSphere(boneIdx, center, radius, density) ==
    [k \in 1..((density + 1) * (density + 1)) |->
        LET i == (k - 1) \div (density + 1)
            j == (k - 1) % (density + 1)
        IN IF boneIdx = 22
           THEN LET phi == (i * 720) \div density - 360
                    theta90 == (j * 720) \div density
                IN <<center[1] + scaled(radius, Cos(phi), Sin(theta90)),
                     center[2] + scaled(radius, Sin(phi), 1000),
                     center[3] + scaled(radius, Cos(phi), Cos(theta90)),
                     boneIdx>>
           ELSE LET pp == (i * 180) \div density
                    tt == (j * 480) \div density
                IN <<center[1] + scaled(radius, Sin(pp), Cos(tt)),
                     center[2] + scaled(radius, Cos(pp), 1000),
                     center[3] + scaled(radius, Sin(pp), Sin(tt)),
                     boneIdx>>]

RECURSIVE templatesFrom(_, _)
templatesFrom(bonePositions, n) ==
    IF n > Len(BoneOrder) THEN <<>>
    ELSE LET b == BoneOrder[n]
         IN addSphere(b, bonePositions[b].position, bonePositions[b].radius,
                      templateDensity(b))
            \o templatesFrom(bonePositions, n + 1)

generateTemplatePoints(bonePositions) == templatesFrom(bonePositions, 1)

(***************************************************************************)
(* PLYLoader.load, pass 3: brute-force nearest template point              *)
(***************************************************************************)
distSq(q, tp) ==
    (q[1] - tp[1]) * (q[1] - tp[1]) + (q[2] - tp[2]) * (q[2] - tp[2])
    + (q[3] - tp[3]) * (q[3] - tp[3])

\* one iteration of the scan: if (distSq < minDistSq) { minDistSq = distSq;
\* bestBone = tp.bone }
scanStep(q, tp, best) ==
    LET d == distSq(q, tp)
    IN IF d < best.minDistSq THEN [minDistSq |-> d, bestBone |-> tp[4]]
       ELSE best

\* the iterations lo..hi of the scan, in index order (the range is halved
\* to keep the evaluation shallow; the left half runs first, and reading
\* best.minDistSq, which is never negative, makes it run before the right)
RECURSIVE scanTemplates(_, _, _, _, _)
scanTemplates(q, templatePoints, lo, hi, best) ==
    IF lo > hi \/ best.minDistSq < 0 THEN best
    ELSE IF lo = hi THEN scanStep(q, templatePoints[lo], best)
    ELSE LET mid == (lo + hi) \div 2
         IN scanTemplates(q, templatePoints, mid + 1, hi,
                          scanTemplates(q, templatePoints, lo, mid, best))

\* let bestBone = 0; let minDistSq = Infinity
scanStart == [minDistSq |-> Infinity, bestBone |-> 0]

\* the scan started from 'no bone' (-1) instead of bone 0
nearestBoneUnset(q, templatePoints) ==
    IF q[2] = NonFinite THEN -1
    ELSE scanTemplates(q, templatePoints, 1, Len(templatePoints),
                       [minDistSq |-> Infinity, bestBone |-> -1]).bestBone

\* a distance that is NaN is never smaller, so bestBone keeps its start
nearestBone(q, templatePoints) ==
    IF q[2] = NonFinite THEN scanStart.bestBone
    ELSE scanTemplates(q, templatePoints, 1, Len(templatePoints), scanStart).bestBone

(***************************************************************************)
(* KDTree (gvrm-format/kdtree.ts).  Points are 0-based as in the code; a   *)
(* node is a record, null is NoNode.                                       *)
(***************************************************************************)
NoNode == [nil |-> TRUE]

\* indices.sort((a, b) => points[a * 3 + axis] - points[b * 3 + axis]):
\* stable, e is put after every index whose value is not greater
RECURSIVE kdInsert(_, _, _, _)
kdInsert(sorted, e, points, axis) ==
    IF sorted = <<>> THEN <<e>>
    ELSE IF points[Head(sorted) + 1][axis + 1] <= points[e + 1][axis + 1]
         THEN <<Head(sorted)>> \o kdInsert(Tail(sorted), e, points, axis)
         ELSE <<e>> \o sorted

RECURSIVE kdSort(_, _, _)
kdSort(indices, points, axis) ==
    IF indices = <<>> THEN <<>>
    ELSE kdInsert(kdSort(SubSeq(indices, 1, Len(indices) - 1), points, axis),
                  indices[Len(indices)], points, axis)

\* KDTree.buildTree(indices, depth)
RECURSIVE buildTree(_, _, _)
buildTree(indices, depth, points) ==
    IF Len(indices) = 0 THEN NoNode
    ELSE IF Len(indices) = 1
    THEN [nil |-> FALSE, point |-> points[indices[1] + 1], index |-> indices[1],
          left |-> NoNode, right |-> NoNode, axis |-> depth % 3]
    ELSE LET axis == depth % 3
             sorted == kdSort(indices, points, axis)
             medianIdx == Len(sorted) \div 2
             nodeIdx == sorted[medianIdx + 1]
         IN [nil |-> FALSE, point |-> points[nodeIdx + 1], index |-> nodeIdx,
             left |-> buildTree(Slice(sorted, 0, medianIdx), depth + 1, points),
             right |-> buildTree(Slice(sorted, medianIdx + 1, Len(sorted)),
                                 depth + 1, points),
             axis |-> axis]

\* KDTree.searchNearest(node, query, best): the best after the call
RECURSIVE searchNearest(_, _, _)
searchNearest(node, query, best) ==
    IF node.nil THEN best
    ELSE LET d == distSq(query, node.point)
             updated == IF d < best.distSq
                        THEN [node |-> node.index, distSq |-> d] ELSE best
             diff == query[node.axis + 1] - node.point[node.axis + 1]
             nearNode == IF diff < 0 THEN node.left ELSE node.right
             farNode == IF diff < 0 THEN node.right ELSE node.left
             afterNear == searchNearest(nearNode, query, updated)
         IN IF diff * diff < afterNear.distSq
            THEN searchNearest(farNode, query, afterNear)
            ELSE afterNear

\* new KDTree(points).nearestNeighbor(query): -1 without a best node
nearestNeighbor(points, query) ==
    LET root == buildTree([i \in 1..Len(points) |-> i - 1], 0, points)
    IN searchNearest(root, query, [node |-> -1, distSq |-> Infinity]).node

\* the rigger's scan over the same points, each labelled with its index:
\* the first point at the least squared distance
bruteForceNearest(points, query) ==
    nearestBone(query, [i \in 1..Len(points) |-> points[i] \o <<i - 1>>])

MaxKdPts == 3

KdPointCandidates ==
    {<<0, 0, 0>>, <<1000, 0, 0>>, <<0, 1000, 0>>, <<1000, 1000, 0>>}

KdQueries == {<<500, 0, 0>>, <<0, 0, 0>>, <<200, 900, 0>>}

KdPointSets == UNION {[1..n -> KdPointCandidates] : n \in 0..MaxKdPts}

NoAnswer == [done |-> FALSE]

KdIdle ==
    /\ kdIn = [points |-> <<>>, query |-> <<0, 0, 0>>]
    /\ kdOut = NoAnswer

KdInit ==
    /\ kdIn \in [points : KdPointSets, query : KdQueries]
    /\ kdOut = NoAnswer

\* both searches are run on the input
KdSearch ==
    /\ UNCHANGED offKd
    /\ ~kdOut.done
    /\ kdOut' = [done |-> TRUE,
                 tree |-> nearestNeighbor(kdIn.points, kdIn.query),
                 scan |-> bruteForceNearest(kdIn.points, kdIn.query)]
    /\ UNCHANGED kdIn

KdNext == KdSearch

\* C13: on every non-empty set of points and every query the tree
\* returns the index the brute-force scan returns (the lowest index among
\* the points at the least squared distance).
Cex_C13 ==
    (kdOut.done /\ kdIn.points # <<>>) => kdOut.tree = kdOut.scan

(***************************************************************************)
(* PLYLoader.load                                                          *)
(***************************************************************************)
TargetHeight == 1700

\* const read = (n) => idx === -1 ? 0 : dataView.getFloat32(b + idx * 4)
read(data, props, b, n) ==
    LET idx == indexOf(props, n)
    IN IF idx = -1 THEN 0 ELSE getFloat32(data, b + idx * 4)

OptionalProps == {"f_dc_0", "f_dc_1", "f_dc_2", "scale_0", "scale_1", "scale_2"}

\* every getFloat32 of pass 1 and pass 3 lies inside the buffer
readsInBuffer(data, props, vertexCount, stride) ==
    \A i \in 0..(vertexCount - 1) :
        /\ \A n \in {"x", "y", "z"} :
               inBuffer(data, i * stride + indexOf(props, n) * 4)
        /\ \A n \in OptionalProps :
               indexOf(props, n) # -1
                   => inBuffer(data, i * stride + indexOf(props, n) * 4)

\* Pass 1: the raw positions
rawPositionsOf(data, props, vertexCount, stride) ==
    [i \in 1..vertexCount |->
        <<getFloat32(data, (i - 1) * stride + indexOf(props, "x") * 4),
          getFloat32(data, (i - 1) * stride + indexOf(props, "y") * 4),
          getFloat32(data, (i - 1) * stride + indexOf(props, "z") * 4)>>]

\* Pass 2: a height of 0 makes the scale factor Infinity and every
\* normalized coordinate NaN or +-Infinity
normalizedPositionsOf(rawPositions, bbox, scaleInfo) ==
    [i \in 1..Len(rawPositions) |->
        IF scaleInfo.scaleDen = 0
        THEN <<NonFinite, NonFinite, NonFinite>>
        ELSE normalizePoint(rawPositions[i], bbox, scaleInfo)]

\* read(n) * scaleFactor; 0 * Infinity is NaN
scaledRead(data, props, b, n, scaleInfo) ==
    IF scaleInfo.scaleDen = 0 THEN NonFinite
    ELSE timesScale(read(data, props, b, n), scaleInfo)

\* a vertex count one short of the declared one
parseVertexCountShort(m) == m[1].arg - 1

\* parseInt(headerText.match(...)![1])
parseVertexCount(m) == m[1].arg

\* a rejected promise carries the error; a resolved one the arrays (one
\* tuple per point: positions, colors, scales of 3, bones of 4)
PLYLoad(file) ==
    LET m == matchVertexCount(file.header)
    IN IF m = <<>> THEN [ok |-> FALSE, error |-> "TypeError"]
       ELSE
       LET vertexCount == parseVertexCount(m)
           props == propsOf(file.header)
           stride == Len(props) * 4
       IN IF ~readsInBuffer(file.data, props, vertexCount, stride)
          THEN [ok |-> FALSE, error |-> "RangeError"]
          ELSE
          LET rawPositions == rawPositionsOf(file.data, props, vertexCount, stride)
              bbox == computeBoundingBox(rawPositions)
              scaleInfo == computeAdaptiveScale(bbox, TargetHeight)
              normalizedPositions ==
                  normalizedPositionsOf(rawPositions, bbox, scaleInfo)
              normalizedBbox == computeBoundingBox(normalizedPositions)
              bonePositions ==
                  detectBonePositions(normalizedPositions, normalizedBbox.size[2])
              templatePoints == generateTemplatePoints(bonePositions)
              bestBone == [i \in 1..vertexCount |->
                              nearestBone(normalizedPositions[i], templatePoints)]
          IN [ok |-> TRUE,
              positions |-> normalizedPositions,
              colors |-> [i \in 1..vertexCount |->
                             <<read(file.data, props, (i - 1) * stride, "f_dc_0"),
                               read(file.data, props, (i - 1) * stride, "f_dc_1"),
                               read(file.data, props, (i - 1) * stride, "f_dc_2")>>],
              scales |-> [i \in 1..vertexCount |->
                             <<scaledRead(file.data, props, (i - 1) * stride, "scale_0", scaleInfo),
                               scaledRead(file.data, props, (i - 1) * stride, "scale_1", scaleInfo),
                               scaledRead(file.data, props, (i - 1) * stride, "scale_2", scaleInfo)>>],
              boneIndices |-> [i \in 1..vertexCount |-> <<bestBone[i], 0, 0, 0>>],
              boneWeights |-> [i \in 1..vertexCount |-> <<1, 0, 0, 0>>],
              calibration |-> [bbox |-> bbox, scaleInfo |-> scaleInfo],
              boneStats |-> [b \in BoneSet |->
                                Cardinality({i \in 1..vertexCount : bestBone[i] = b})]]

(***************************************************************************)
(* The point-cloud files the loader is run on.                             *)
(***************************************************************************)
PointCandidates ==
    {<<0, 0, 0>>, <<0, 600, 0>>, <<0, 1800, 0>>, <<150, 1500, 100>>}

SmallClouds == UNION {[1..n -> PointCandidates] : n \in 0..MaxSmallPts}

PropsXYZ == <<"x", "y", "z">>

PropsFull ==
    <<"x", "y", "z", "f_dc_0", "f_dc_1", "f_dc_2", "opacity",
      "scale_0", "scale_1", "scale_2">>

PropsMixed == <<"scale_1", "x", "y", "f_dc_2", "z", "opacity">>

\* the payload value of a non-position property of point i
OptionalValue(name, i) ==
    CASE name = "f_dc_0" -> 10 + i
      [] name = "f_dc_1" -> 20 + i
      [] name = "f_dc_2" -> 30 + i
      [] name = "scale_0" -> 100 * i
      [] name = "scale_1" -> 200 * i
      [] name = "scale_2" -> 300 * i
      [] OTHER -> 7

RecordOf(props, point, i) ==
    [k \in 1..Len(props) |->
        CASE props[k] = "x" -> point[1]
          [] props[k] = "y" -> point[2]
          [] props[k] = "z" -> point[3]
          [] OTHER -> OptionalValue(props[k], i)]

\* the records of the points i.., one after the other
PayloadOf(props, cloud, i) ==
    [m \in 1..((Len(cloud) + 1 - i) * Len(props)) |->
        LET at == i + (m - 1) \div Len(props)
        IN RecordOf(props, cloud[at], at)[((m - 1) % Len(props)) + 1]]

PropertyLines(props) == [k \in 1..Len(props) |-> PropertyFloat(props[k])]

MakeFile(props, cloud) ==
    [header |-> <<ElementVertex(Len(cloud))>> \o PropertyLines(props),
     data |-> PayloadOf(props, cloud, 1)]

\* a header without the 'element vertex <N>' line
MalformedFile(props, cloud) ==
    [header |-> PropertyLines(props), data |-> PayloadOf(props, cloud, 1)]

\* the scenario of the specification: heights 0, 0.6, 1.2, 1.8
ScenarioCloud == <<<<0, 0, 0>>, <<0, 600, 0>>, <<0, 1200, 0>>, <<0, 1800, 0>>>>

\* a cloud with feet, head and five points at chest height, two of them
\* (the 3rd and the 6th, and the 5th and the 6th) tied on X
TieCloud ==
    <<<<0, 0, 0>>, <<0, 1700, 0>>, <<200, 1400, 0>>, <<0, 1300, 200>>,
      <<300, 1400, 0>>, <<300, 1300, -200>>, <<-200, 1350, -200>>>>

\* the same body with no two chest points tied on X
NoTieCloud ==
    <<<<0, 0, 0>>, <<0, 1700, 0>>, <<200, 1400, 0>>, <<0, 1300, 200>>,
      <<300, 1400, 0>>, <<350, 1300, -200>>, <<-200, 1350, -200>>>>

\* the number of points in front of the neck in the largest cloud
JawPts == 55

\* feet, crown and one neck point at the back, the frame of the clouds
\* with points in front of the neck
NeckFrame == <<<<0, 0, 0>>, <<0, 1700, 0>>, <<0, 1560, -100>>>>

\* n points in front of the neck and just above it, written from the
\* highest down to the lowest (Y 1.582 + 0.001 n .. 1.583)
JawRow(n) == [k \in 1..n |-> <<0, 1582 + (n + 1 - k), 100>>]

\* six points in the jaw region
JawCloud == NeckFrame \o JawRow(6)

\* three points in the jaw region
FewJawCloud == NeckFrame \o JawRow(3)

\* so many points in the jaw region that a fifth of them is more than 10
ManyJawCloud == NeckFrame \o JawRow(JawPts)

JawClouds == {JawCloud, FewJawCloud, ManyJawCloud}

\* a file whose header declares n vertices over the payload of cloud
DeclaredFile(n, cloud) ==
    [header |-> <<ElementVertex(n)>> \o PropertyLines(PropsXYZ),
     data |-> PayloadOf(PropsXYZ, cloud, 1)]

SampleClouds == {ScenarioCloud, TieCloud, NoTieCloud, <<>>, <<<<0, 600, 0>>>>,
                 <<<<0, 600, 0>>, <<150, 600, 100>>>>}

PlyFiles ==
    {MakeFile(PropsXYZ, c) : c \in SmallClouds \cup SampleClouds}
    \cup {MakeFile(pr, c) : pr \in {PropsFull, PropsMixed}, c \in SampleClouds}
    \cup {MalformedFile(pr, ScenarioCloud) : pr \in {PropsXYZ, PropsFull}}
    \cup {DeclaredFile(2, ScenarioCloud), DeclaredFile(5, ScenarioCloud)}
    \cup {MakeFile(PropsXYZ, c) : c \in JawClouds}

(***************************************************************************)
(* State of the loader run: the file, the loader's result, and the result  *)
(* of loading the same file with two of its records exchanged.             *)
(***************************************************************************)
NoResult == [ok |-> FALSE, error |-> "none"]

\* the declared vertex count of a file that has one
declaredCount(file) == matchVertexCount(file.header)[1].arg

\* the file with records i and j exchanged
SwapRecords(file, i, j) ==
    LET w == Len(propsOf(file.header))
        src(r) == IF r = i THEN j ELSE IF r = j THEN i ELSE r
    IN [file EXCEPT !.data =
           [k \in 1..Len(file.data) |->
               file.data[(src(((k - 1) \div w) + 1) - 1) * w + ((k - 1) % w) + 1]]]

PlyIdle ==
    /\ plyFile = MakeFile(PropsXYZ, <<>>)
    /\ plyPc = "off"
    /\ plyResult = NoResult
    /\ plySwap = <<0, 0>>
    /\ plyPermuted = NoResult

PlyInit ==
    /\ plyFile \in PlyFiles
    /\ plyPc = "fetch"
    /\ plyResult = NoResult
    /\ plySwap = <<0, 0>>
    /\ plyPermuted = NoResult

\* PLYLoader.load(url) settles
PlyLoadStep ==
    /\ UNCHANGED offPly
    /\ plyPc = "fetch"
    /\ plyResult' = PLYLoad(plyFile)
    /\ plyPc' = "done"
    /\ UNCHANGED <<plyFile, plySwap, plyPermuted>>

\* the largest cloud whose points are exchanged
MaxPoints == Len(TieCloud)

\* PLYLoader.load on the same cloud with points i and j exchanged
PlyLoadPermuted(i, j) ==
    /\ UNCHANGED offPly
    /\ plyPc = "done"
    /\ plyResult.ok
    /\ i < j /\ j <= declaredCount(plyFile)
    /\ declaredCount(plyFile) <= MaxPoints
    /\ plySwap' = <<i, j>>
    /\ plyPermuted' = PLYLoad(SwapRecords(plyFile, i, j))
    /\ plyPc' = "permuted"
    /\ UNCHANGED <<plyFile, plyResult>>

PlyNext ==
    \/ PlyLoadStep
    \/ \E i \in 1..MaxPoints, j \in 1..MaxPoints : PlyLoadPermuted(i, j)

(***************************************************************************)
(* Properties of the loader (specification SpecPly).                       *)
(***************************************************************************)
PlyLoaded == plyPc \in {"done", "permuted"} /\ plyResult.ok

\* the points of the loaded cloud that fall in the height band lo..hi (in
\* hundredths of the normalized height)
bandPoints(result, lo, hi) ==
    getPointsInRange(finitePoints(result.positions),
                     lo * computeBoundingBox(result.positions).size[2],
                     hi * computeBoundingBox(result.positions).size[2])

\* C3: after load every one of the N points has exactly one bone index
\* from {0, 3, 9, 12, 15, 16, 17, 22}, in the first slot, with weight 1 in
\* the first slot and 0 in the three others; no point is left out.
Thm_C3 ==
    PlyLoaded =>
        /\ Len(plyResult.boneIndices) = declaredCount(plyFile)
        /\ Len(plyResult.boneWeights) = declaredCount(plyFile)
        /\ \A i \in 1..declaredCount(plyFile) :
            /\ plyResult.boneIndices[i][1] \in BoneSet
            /\ \A k \in 2..4 : plyResult.boneIndices[i][k] = 0
            /\ plyResult.boneWeights[i] = <<1, 0, 0, 0>>

\* a loaded cloud of several points of positive height whose neck band is
\* empty
Wit_C3 ==
    /\ PlyLoaded
    /\ declaredCount(plyFile) >= 3
    /\ plyResult.calibration.bbox.size[2] > 0
    /\ bandPoints(plyResult, 88, 93) = <<>>
    /\ \E i \in 1..declaredCount(plyFile) : plyResult.boneIndices[i][1] # 0

\* a file the loader can read: it declares its vertex count and x, y, z,
\* and its payload holds the declared number of records
validFile(file) ==
    /\ matchVertexCount(file.header) # <<>>
    /\ \A n \in {"x", "y", "z"} : indexOf(propsOf(file.header), n) # -1
    /\ Len(file.data) >= declaredCount(file) * Len(propsOf(file.header))

\* C12: for a valid file declaring N vertices the load resolves with
\* positions, colors and scales of N triples (3N values) and with bone
\* indices and bone weights of N quadruples (4N values).
Thm_C12 ==
    (plyPc \in {"done", "permuted"} /\ validFile(plyFile)) =>
        /\ plyResult.ok
        /\ \A a \in {"positions", "colors", "scales"} :
              /\ Len(plyResult[a]) = declaredCount(plyFile)
              /\ \A i \in 1..declaredCount(plyFile) : Len(plyResult[a][i]) = 3
        /\ \A a \in {"boneIndices", "boneWeights"} :
              /\ Len(plyResult[a]) = declaredCount(plyFile)
              /\ \A i \in 1..declaredCount(plyFile) : Len(plyResult[a][i]) = 4

\* a loaded file that declares 2 vertices over a payload of 4 records, with
\* 2 points in the result
Wit_C12 ==
    /\ PlyLoaded
    /\ plyFile = DeclaredFile(2, ScenarioCloud)
    /\ Len(plyResult.positions) = 2
    /\ Len(plyResult.boneIndices) = 2

\* the point of the permuted cloud that is point i of the original
permutedIndex(i) ==
    IF i = plySwap[1] THEN plySwap[2]
    ELSE IF i = plySwap[2] THEN plySwap[1] ELSE i

outputOf(result, name, i) ==
    CASE name = "f_dc_0" -> result.colors[i][1]
      [] name = "f_dc_1" -> result.colors[i][2]
      [] name = "f_dc_2" -> result.colors[i][3]
      [] name = "scale_0" -> result.scales[i][1]
      [] name = "scale_1" -> result.scales[i][2]
      [] name = "scale_2" -> result.scales[i][3]

hasVertexToken(file) == matchVertexCount(file.header) # <<>>

\* C9: when the header omits an optional property the load succeeds and
\* the output values of that property are 0 for every point.
Cex_C9 ==
    (plyPc \in {"done", "permuted"} /\ hasVertexToken(plyFile)) =>
        /\ plyResult.ok
        /\ \A name \in OptionalProps :
               indexOf(propsOf(plyFile.header), name) = -1 =>
                   \A i \in 1..declaredCount(plyFile) :
                       outputOf(plyResult, name, i) = 0

\* the raw positions of the file, as the loader reads them
rawOf(file) ==
    rawPositionsOf(file.data, propsOf(file.header), declaredCount(file),
                   4 * Len(propsOf(file.header)))

ScenarioFile == MakeFile(PropsXYZ, ScenarioCloud)

\* C10: for a cloud of positive height the lowest point lands at Y = 0 and
\* the highest at Y = targetHeight, so the bounding box of the normalized
\* positions has height targetHeight; in the scenario the point at 1.8
\* lands at 1.70 and the point at 0 at 0.
Thm_C10 ==
    (PlyLoaded /\ declaredCount(plyFile) > 0
        /\ plyResult.calibration.bbox.size[2] > 0) =>
        /\ \A i \in 1..declaredCount(plyFile) :
            /\ rawOf(plyFile)[i][2] = plyResult.calibration.bbox.min[2]
                   => plyResult.positions[i][2] = 0
            /\ rawOf(plyFile)[i][2] = plyResult.calibration.bbox.max[2]
                   => plyResult.positions[i][2] = TargetHeight
        /\ computeBoundingBox(plyResult.positions).size[2] = TargetHeight
        /\ plyFile = ScenarioFile =>
               /\ plyResult.positions[4][2] = 1700
               /\ plyResult.positions[1][2] = 0

\* the scenario cloud (heights 0, 0.6, 1.2, 1.8) has been loaded
Wit_C10 ==
    /\ PlyLoaded
    /\ plyFile = ScenarioFile
    /\ [i \in 1..4 |-> plyResult.positions[i][2]] = <<0, 566, 1133, 1700>>

(***************************************************************************)
(* GSViewer (gvrm-format/gs.ts).  A viewer is a record of its buffers; the *)
(* latents are a flat array of 32 channels per point.                      *)
(***************************************************************************)
LatentChannels == 32

TileCount == 8

\* uniform mat4 boneMatrices[64]
BoneSlots == 64

\* A mat4 is kept as the product that made it: the sequence of its pivot
\* rotations, left to right.  The identity is the empty product; the
\* matrix of sixteen zeros absorbs every product.
IdentityMatrix == [zero |-> FALSE, factors |-> <<>>]

ZeroMatrix == [zero |-> TRUE, factors |-> <<>>]

\* a.multiply(b): a * b
multiply(a, b) ==
    IF a.zero \/ b.zero THEN ZeroMatrix
    ELSE [zero |-> FALSE, factors |-> a.factors \o b.factors]

\* new Float32Array(16 * 64): the uniform before the first updateBones
\* (time is the clock reading of the update that made a table, 0 for none)
ZeroMatrices ==
    [kind |-> "zero", jawX |-> 0, time |-> 0,
     table |-> [i \in 1..BoneSlots |-> ZeroMatrix]]

\* isNaN(value) / !isFinite(value): value = 0
sanitize(value) == IF value = NonFinite THEN 0 ELSE value

\* the tile array the loop of updateLatentTile builds
tileOf(latentData, vertexCount, tileIndex) ==
    [i \in 1..vertexCount |->
        [c \in 1..4 |->
            LET srcIdx == (i - 1) * LatentChannels + tileIndex * 4 + (c - 1)
            IN IF srcIdx >= Len(latentData) THEN 0
               ELSE sanitize(latentData[srcIdx + 1])]]

\* the guard off by one: index 8 is let through
updateLatentTileLoose(gsv, tileIndex) ==
    IF tileIndex < 0 \/ tileIndex > TileCount THEN gsv
    ELSE [gsv EXCEPT !.latentTile = tileOf(gsv.latentData, gsv.vertexCount, tileIndex)]

\* the tile written through to the first four channels of every point of
\* the stored latents
updateLatentTileInPlace(gsv, tileIndex) ==
    IF tileIndex < 0 \/ tileIndex >= TileCount THEN gsv
    ELSE [gsv EXCEPT
            !.latentTile = tileOf(gsv.latentData, gsv.vertexCount, tileIndex),
            !.latentData =
                [k \in 1..Len(gsv.latentData) |->
                    IF (k - 1) % LatentChannels < 4
                    THEN tileOf(gsv.latentData, gsv.vertexCount, tileIndex)
                             [((k - 1) \div LatentChannels) + 1]
                             [((k - 1) % LatentChannels) + 1]
                    ELSE gsv.latentData[k]]]

updateLatentTile(gsv, tileIndex) ==
    IF tileIndex < 0 \/ tileIndex >= TileCount THEN gsv
    ELSE [gsv EXCEPT !.latentTile = tileOf(gsv.latentData, gsv.vertexCount, tileIndex)]

updateBones(gsv, matrices) == [gsv EXCEPT !.boneMatrices = matrices]

setPointSize(gsv, size) == [gsv EXCEPT !.basePointSize = size]

\* the constructor: the buffers are kept, tile 0 is made active, the bone
\* uniform starts as zeros and the point size as 15
NewGSViewer(data) ==
    updateLatentTile(
        [vertexCount |-> data.vertexCount,
         positions |-> data.positions,
         boneIndices |-> data.boneIndices,
         boneWeights |-> data.boneWeights,
         latentData |-> data.latents,
         opacityData |-> data.opacity,
         scaleData |-> data.scale,
         rotationData |-> data.rotation,
         latentTile |-> <<>>,
         boneMatrices |-> ZeroMatrices,
         basePointSize |-> 15],
        0)

(***************************************************************************)
(* The viewer on its own (specification SpecViewer): a constructed viewer  *)
(* and calls of its public methods.                                        *)
(***************************************************************************)
MaxViewerPts == 2

\* latents of n points: channel ch of point i is 100 * i + ch
CleanLatents(n) ==
    [k \in 1..(n * LatentChannels) |->
        100 * (((k - 1) \div LatentChannels) + 1) + ((k - 1) % LatentChannels)]

\* the same with NaN in channel 5 and Infinity in channel 30 of point 1
DirtyLatents(n) ==
    [k \in 1..(n * LatentChannels) |->
        IF k \in {6, 31} THEN NonFinite ELSE CleanLatents(n)[k]]

\* an array that ends 6 values early
ShortLatents(n) == SubSeq(CleanLatents(n), 1, n * LatentChannels - 6)

ViewerData(n, latents) ==
    [vertexCount |-> n,
     positions |-> [i \in 1..n |-> <<0, 850 * i, 0>>],
     boneIndices |-> [i \in 1..n |-> <<15, 0, 0, 0>>],
     boneWeights |-> [i \in 1..n |-> <<1, 0, 0, 0>>],
     latents |-> latents,
     opacity |-> [i \in 1..n |-> i],
     scale |-> [i \in 1..n |-> <<i, i, i>>],
     rotation |-> [i \in 1..n |-> <<1, 0, 0, 0>>]]

ViewerInputs ==
    UNION {{ViewerData(n, CleanLatents(n)), ViewerData(n, DirtyLatents(n)),
            ViewerData(n, ShortLatents(n))} : n \in 1..MaxViewerPts}

TileInputs == (-2)..(TileCount + 1)

PoseInputs ==
    {ZeroMatrices,
     [kind |-> "pose", jawX |-> 500, time |-> 1,
      table |-> [i \in 1..BoneSlots |-> IdentityMatrix]]}

NoCall == [index |-> -99, prev |-> <<>>]

ViewerIdle ==
    /\ gs = <<>>
    /\ gsCall = NoCall

ViewerInit ==
    /\ gs \in {NewGSViewer(d) : d \in ViewerInputs}
    /\ gsCall = NoCall

\* viewer.updateLatentTile(i); gsCall remembers the argument and the viewer
\* as it was before the call
GsUpdateLatentTile(i) ==
    /\ UNCHANGED offViewer
    /\ gs' = updateLatentTile(gs, i)
    /\ gsCall' = [index |-> i, prev |-> gs]

GsUpdateBones(m) ==
    /\ UNCHANGED offViewer
    /\ gs' = updateBones(gs, m)
    /\ gsCall' = NoCall

GsSetPointSize(size) ==
    /\ UNCHANGED offViewer
    /\ gs' = setPointSize(gs, size)
    /\ gsCall' = NoCall

ViewerNext ==
    \/ \E i \in TileInputs : GsUpdateLatentTile(i)
    \/ \E m \in PoseInputs : GsUpdateBones(m)
    \/ \E size \in {15, 20} : GsSetPointSize(size)

\* the value of latent channel ch (0-based) of point i, as stored
latentOf(gsv, i, ch) == gsv.latentData[(i - 1) * LatentChannels + ch + 1]

hasLatent(gsv, i, ch) == (i - 1) * LatentChannels + ch < Len(gsv.latentData)

\* C2 as stated: for i in 0..7 the active tile becomes channels 4i..4i+3 of
\* each point's latent vector; for i outside 0..7 the viewer is unchanged.
Cex_C2 ==
    gsCall # NoCall =>
        IF gsCall.index \in 0..7
        THEN /\ \A i \in 1..gs.vertexCount : \A c \in 0..3 :
                    hasLatent(gs, i, 4 * gsCall.index + c) =>
                        gs.latentTile[i][c + 1] = latentOf(gs, i, 4 * gsCall.index + c)
             /\ gs = [gsCall.prev EXCEPT !.latentTile = gs.latentTile]
        ELSE gs = gsCall.prev

\* C2 amended: for i in 0..7 the active tile becomes channels 4i..4i+3 of
\* each point's latent vector with NaN and infinite values replaced by 0
\* (and 0 past the end of the latent array), nothing else changes; for i
\* outside 0..7 the viewer is unchanged.
Thm_C2 ==
    gsCall # NoCall =>
        IF gsCall.index \in 0..7
        THEN /\ Len(gs.latentTile) = gs.vertexCount
             /\ \A i \in 1..gs.vertexCount : \A c \in 0..3 :
                    gs.latentTile[i][c + 1] =
                        IF ~hasLatent(gs, i, 4 * gsCall.index + c) THEN 0
                        ELSE IF latentOf(gs, i, 4 * gsCall.index + c) = NonFinite THEN 0
                        ELSE latentOf(gs, i, 4 * gsCall.index + c)
             /\ gs = [gsCall.prev EXCEPT !.latentTile = gs.latentTile]
        ELSE gs = gsCall.prev

\* a rejected call (index 8) on a viewer whose point 1 has a NaN latent and
\* whose active tile, set by an earlier accepted call, is tile 1
Wit_C2 ==
    /\ gsCall.index = 8
    /\ gs.latentData[6] = NonFinite
    /\ gs.latentTile[1] = <<104, 0, 106, 107>>
    /\ gs.boneMatrices # ZeroMatrices

(***************************************************************************)
(* VRMManager (the pose solver).  Angles are in thousandths of a radian    *)
(* and the lip-sync level in thousandths.                                  *)
(***************************************************************************)
\* a jaw rotation of the full level (factor 1.0 instead of 0.5)
jawRotationFull(level) == level

\* this.localRotations[22] = new THREE.Euler(this._lipSyncLevel * 0.5, 0, 0)
jawRotation(level) == (level * 5) \div 10

\* SKELETON_POS: the pivot of each bone of the skeleton, in millimetres
SKELETON_POS ==
    0 :> <<0, 1050, 0>> @@ 3 :> <<0, 1250, 0>> @@ 6 :> <<0, 1350, 0>>
    @@ 9 :> <<0, 1450, 0>> @@ 12 :> <<0, 1550, 0>> @@ 15 :> <<0, 1650, 50>>
    @@ 16 :> <<220, 1420, 0>> @@ 17 :> <<-220, 1420, 0>>
    @@ 22 :> <<0, 1600, 80>>

\* HIERARCHY: the parent of each bone but the root
HIERARCHY ==
    3 :> 0 @@ 6 :> 3 @@ 9 :> 6 @@ 12 :> 9 @@ 15 :> 12 @@ 22 :> 15
    @@ 16 :> 9 @@ 17 :> 9

\* an order that solves the jaw before the head, its parent
SolveOrderJawFirst == <<0, 3, 6, 9, 12, 22, 15, 16, 17>>

\* the order solveHierarchy walks the bones in
SolveOrder == <<0, 3, 6, 9, 12, 15, 16, 17, 22>>

\* Math.sin(x) in thousandths, x in hundredths of a radian (the arguments
\* update reaches at the clock readings 1..4)
SinRad ==
    150 :> 997 @@ 300 :> 141 @@ 450 :> -978 @@ 600 :> -279
    @@ 40 :> 389 @@ 80 :> 717 @@ 120 :> 932 @@ 160 :> 1000
    @@ 25 :> 247 @@ 50 :> 479 @@ 75 :> 682 @@ 100 :> 841

\* Math.sin(time * rate) * amplitude: time in seconds, rate in hundredths,
\* amplitude and result in thousandths of a radian
sway(time, rate, amplitude) ==
    IF time * rate \in DOMAIN SinRad
    THEN (SinRad[time * rate] * amplitude) \div 1000
    ELSE 0

NoRotation == <<0, 0, 0>>

\* this.matrices as allocated, without resetPose
zeroPose == [i \in 1..BoneSlots |-> ZeroMatrix]

\* resetPose: identity in every slot of this.matrices
resetPose == [i \in 1..BoneSlots |-> IdentityMatrix]

\* the local rotations update() leaves in place: the six it assigns over
\* the zeros of resetPose
localRotations(level, time) ==
    [i \in 0..(BoneSlots - 1) |->
        CASE i = 9 -> <<sway(time, 150, 15), 0, 0>>
          [] i = 15 -> <<sway(time, 40, 10), sway(time, 25, 10), 0>>
          [] i = 22 -> <<jawRotation(level), 0, 0>>
          [] i = 16 -> <<100, 0, -1200>>
          [] i = 17 -> <<100, 0, 1200>>
          [] OTHER -> NoRotation]

\* getPivotMatrix: T(pivot) * R(rotation) * T(-pivot), which is the
\* identity when the rotation is zero
getPivotMatrix(boneIndex, rotation) ==
    IF rotation = NoRotation THEN IdentityMatrix
    ELSE [zero |-> FALSE,
          factors |-> <<[bone |-> boneIndex,
                         pivot |-> IF boneIndex \in DOMAIN SKELETON_POS
                                   THEN SKELETON_POS[boneIndex]
                                   ELSE <<0, 0, 0>>,
                         rot |-> rotation]>>]

\* the forEach of solveHierarchy from position k of the order on:
\* globalMatrices holds the bones solved so far
RECURSIVE solveFrom(_, _, _, _)
solveFrom(k, globalMatrices, matrices, rotations) ==
    IF k > Len(SolveOrder) THEN matrices
    ELSE LET idx == SolveOrder[k]
             localMat == getPivotMatrix(idx, rotations[idx])
             global ==
                 IF idx \in DOMAIN HIERARCHY
                    /\ HIERARCHY[idx] \in DOMAIN globalMatrices
                 THEN multiply(globalMatrices[HIERARCHY[idx]], localMat)
                 ELSE localMat
         IN solveFrom(k + 1, (idx :> global) @@ globalMatrices,
                      [matrices EXCEPT ![idx + 1] = global], rotations)

solveHierarchy(matrices, rotations) ==
    solveFrom(1, [b \in {} |-> IdentityMatrix], matrices, rotations)

\* update(): this.matrices after the solve, from the lip-sync level and
\* the clock reading
vrmSolve(matrices, level, time) ==
    solveHierarchy(matrices, localRotations(level, time))

\* An array update() has returned, as the caller holds it: its own data,
\* or this.matrices itself when shared.
\* returning this.matrices without slice()
sliceShared(matrices) == [shared |-> TRUE, data |-> <<>>]

\* this.matrices.slice(): a new array with the same elements
slice(matrices) == [shared |-> FALSE, data |-> matrices]

\* the elements of a returned array, given this.matrices as it is now
readArray(array, matrices) == IF array.shared THEN matrices ELSE array.data

\* return this.matrices.slice(): the copy handed to the viewer
vrmUpdate(matrices, level, time) ==
    [kind |-> "pose", jawX |-> jawRotation(level), time |-> time,
     table |-> vrmSolve(matrices, level, time)]

(***************************************************************************)
(* WebGLDisplay (image-encoder.ts).  Colour values and uniforms are in     *)
(* thousandths; the image has DisplayPixels pixels (512 * 512 in the       *)
(* code), given plane by plane (all R, all G, all B).                      *)
(***************************************************************************)
DisplayPixels == 2

\* the number of leading RGB values the first-frame statistics look at
\* (1500 in the code)
StatSamples == 3

DefaultBrightness == 2000

\* the constructor: an empty texture, uMinVal 0, uMaxVal 1, uBrightness 2
NewWebGLDisplay ==
    [uMinVal |-> 0, uMaxVal |-> 1000, uBrightness |-> DefaultBrightness,
     texture |-> [i \in 1..DisplayPixels |-> <<0, 0, 0, 0>>],
     canvas |-> <<>>]

RECURSIVE MinOf(_)
MinOf(sq) == IF Len(sq) = 1 THEN sq[1] ELSE Min2(sq[1], MinOf(Tail(sq)))

RECURSIVE MaxOf(_)
MaxOf(sq) == IF Len(sq) = 1 THEN sq[1] ELSE Max2(sq[1], MaxOf(Tail(sq)))

\* the fragment shader on one colour component: the contrast step when
\* range > 0.01, the brightness step, the clamp
fragmentColor(d, color) ==
    LET range == d.uMaxVal - d.uMinVal
        contrasted == IF range > 10
                      THEN ((color - d.uMinVal) * 1000) \div range
                      ELSE color
        bright == (contrasted * d.uBrightness) \div 1000
    IN Max2(0, Min2(1000, bright))

\* the layout conversion of display: plane by plane to RGBA per pixel
toPixels(data) ==
    [i \in 1..DisplayPixels |->
        <<data[i], data[DisplayPixels + i], data[2 * DisplayPixels + i], 1000>>]

\* pixels.filter((_, i) => i % 4 !== 3).slice(0, 1500)
rgbSample(pixels) ==
    Slice([k \in 1..(3 * DisplayPixels) |-> pixels[((k - 1) \div 3) + 1][((k - 1) % 3) + 1]],
          0, StatSamples)

\* renderer.render: the canvas, top row first (the shader flips Y, so the
\* rows of the data come out in their order)
renderQuad(d) ==
    [i \in 1..DisplayPixels |->
        <<fragmentColor(d, d.texture[i][1]), fragmentColor(d, d.texture[i][2]),
          fragmentColor(d, d.texture[i][3])>>]

\* WebGLDisplay.display(data, frameCount)
wdDisplay(d, data, frame) ==
    IF Len(data) # DisplayPixels * 3 THEN d
    ELSE LET pixels == toPixels(data)
             ranged == IF frame = 1
                       THEN [d EXCEPT !.uMinVal = MinOf(rgbSample(pixels)),
                                      !.uMaxVal = MaxOf(rgbSample(pixels))]
                       ELSE d
             textured == [ranged EXCEPT !.texture = pixels]
         IN [textured EXCEPT !.canvas = renderQuad(textured)]

\* WebGLDisplay.setBrightness(value)
wdSetBrightness(d, value) == [d EXCEPT !.uBrightness = value]

(***************************************************************************)
(* NeuralRefiner.run after the inference: the layout step, the cleaning    *)
(* and the normalisation of the output (an image of DisplayPixels pixels). *)
(***************************************************************************)
\* dims.length === 4 && dims[1] === 3
isCHW4(dims) == Len(dims) = 4 /\ dims[2] = 3

\* the layout step: out[p * C + c] = rawOutput[c * H * W + p] when the
\* output has four dimensions of which the second is 3, else out = rawOutput
outputLayout(rawOutput, dims) ==
    IF isCHW4(dims)
    THEN [k \in 1..Len(rawOutput) |->
             rawOutput[((k - 1) % 3) * DisplayPixels + ((k - 1) \div 3) + 1]]
    ELSE rawOutput

\* min and max over the finite values, from Infinity and -Infinity
outputStats(out) ==
    LET finite == SelectSeq(out, LAMBDA v : v # NonFinite)
    IN [min |-> IF finite = <<>> THEN Infinity ELSE MinOf(finite),
        max |-> IF finite = <<>> THEN -Infinity ELSE MaxOf(finite)]

\* what the cleaning and the normalisation make of one value
normalized(stats, value) ==
    LET v == IF value = NonFinite THEN 0 ELSE value
        range == stats.max - stats.min
    IN IF range < 1 THEN 500
       ELSE IF stats.min >= 0 /\ stats.max <= 1000 THEN v
       ELSE IF stats.min >= -1000 /\ stats.max <= 1000 THEN (v + 1000) \div 2
       ELSE ((v - stats.min) * 1000) \div range

\* NeuralRefiner.run from the output of the session on
refinerRun(rawOutput, dims) ==
    LET out == outputLayout(rawOutput, dims)
        stats == outputStats(out)
    IN [k \in 1..Len(out) |-> normalized(stats, out[k])]

\* the value of the session's output for channel c of pixel p (both from
\* 0), by the dimensions it comes with: planes of channels when a 3 leads
\* the image dimensions, channels per pixel when it ends them
outputValue(rawOutput, dims, c, p) ==
    IF dims[Len(dims)] = 3 /\ ~isCHW4(dims) /\ Len(dims) = 4
    THEN rawOutput[p * 3 + c + 1]
    ELSE rawOutput[c * DisplayPixels + p + 1]

\* the dimensions the output of the session can come with: [1, 3, H, W],
\* [1, H, W, 3] and [3, H, W], for an image of one row
OutputDims ==
    {<<1, 3, 1, DisplayPixels>>, <<1, 1, DisplayPixels, 3>>, <<3, 1, DisplayPixels>>}

\* an output of the session: every value its own, from -0.6 up in steps
\* of 0.3
RawOutputs == {[k \in 1..(3 * DisplayPixels) |-> 300 * k - 900]}

\* the images displayed: flat ones, ramps, one whose planes differ, and
\* one of a wrong length
FlatImage(v) == [k \in 1..(3 * DisplayPixels) |-> v]

RampImage(from, step) == [k \in 1..(3 * DisplayPixels) |-> from + step * (k - 1)]

PlaneImage ==
    [k \in 1..(3 * DisplayPixels) |->
        IF k <= DisplayPixels THEN 1000
        ELSE IF k <= 2 * DisplayPixels THEN 500 ELSE 0]

DisplayImages ==
    {FlatImage(v) : v \in {0, 250, 500, 1000}}
        \cup {RampImage(0, 100), RampImage(900, -100), RampImage(-200, 300),
              PlaneImage, <<500>>}

BrightnessInputs == {500, 1000, DefaultBrightness}

NoDisplayCall == [frame |-> -1]

DisplayIdle ==
    /\ wd = NewWebGLDisplay
    /\ wdCall = NoDisplayCall

WdDisplay(data, frame) ==
    /\ UNCHANGED offDisplay
    /\ wd' = wdDisplay(wd, data, frame)
    /\ wdCall' = [frame |-> frame, data |-> data, prev |-> wd,
                  rawOutput |-> <<>>, dims |-> <<>>]

\* GVRM.animate from the end of the inference on: refiner.process returns
\* the refined image and webglDisplay.display shows it
WdDisplayRefined(rawOutput, dims, frame) ==
    /\ UNCHANGED offDisplay
    /\ LET refinedRgb == refinerRun(rawOutput, dims)
       IN /\ wd' = wdDisplay(wd, refinedRgb, frame)
          /\ wdCall' = [frame |-> frame, data |-> refinedRgb, prev |-> wd,
                        rawOutput |-> rawOutput, dims |-> dims]

WdSetBrightness(value) ==
    /\ UNCHANGED offDisplay
    /\ wd' = wdSetBrightness(wd, value)
    /\ UNCHANGED wdCall

DisplayNext ==
    \/ \E data \in DisplayImages, frame \in 0..2 : WdDisplay(data, frame)
    \/ \E rawOutput \in RawOutputs, dims \in OutputDims, frame \in 1..2 :
           WdDisplayRefined(rawOutput, dims, frame)
    \/ \E value \in BrightnessInputs : WdSetBrightness(value)

\* C11: when the refiner's image is flat 0.5 (the display's brightness
\* being the one it is constructed with), every colour component of the
\* displayed frame is 0.5.
Cex_C11 ==
    (/\ wdCall # NoDisplayCall
     /\ wdCall.data = FlatImage(500)
     /\ wd.uBrightness = DefaultBrightness
     /\ wdCall.prev.uBrightness = DefaultBrightness) =>
        \A i \in 1..DisplayPixels : wd.canvas[i] = <<500, 500, 500>>

(***************************************************************************)
(* GVRM.loadAssets: the assets it fetches and the models it runs.          *)
(***************************************************************************)
\* the number of template vertices (10595 in the code)
TEMPLATE_VERTEX_COUNT == 3

GoodFile == MakeFile(PropsXYZ, <<<<0, 0, 0>>, <<0, 1800, 0>>>>)

BadFile == MalformedFile(PropsXYZ, <<<<0, 0, 0>>, <<0, 1800, 0>>>>)

GvrmFiles == {GoodFile, BadFile}

\* PLYLoader.load on each of the files
PlyOutcome == [f \in GvrmFiles |-> PLYLoad(f)]

\* geometryData.vTemplate: template vertex j (0-based); vertices 2k and
\* 2k + 1 coincide
vTemplate(j) == <<0, 1700 * (j \div 2), 0>>

\* templateOutput.latent32ch[j * 32 + ch]; undefined (NaN once stored in a
\* Float32Array) outside the array; the decoder puts a NaN in the last
\* vertex
latent32ch(j, ch) ==
    IF j < 0 \/ j >= TEMPLATE_VERTEX_COUNT THEN NonFinite
    ELSE IF j = TEMPLATE_VERTEX_COUNT - 1 /\ ch = 5 THEN NonFinite
    ELSE 100 * (j + 1) + ch

templateValue(j, base) ==
    IF j < 0 \/ j >= TEMPLATE_VERTEX_COUNT THEN NonFinite ELSE base + j

\* one step of the fallback scan: if (dist < minDist) { minDist = dist;
\* nearestIdx = j }
RECURSIVE scanVertices(_, _, _, _)
scanVertices(q, j, minDist, nearestIdx) ==
    IF j >= TEMPLATE_VERTEX_COUNT THEN nearestIdx
    ELSE IF distSq(q, vTemplate(j)) < minDist
         THEN scanVertices(q, j + 1, distSq(q, vTemplate(j)), j)
         ELSE scanVertices(q, j + 1, minDist, nearestIdx)

\* vertexMapping[i] = nearestIdx + 1: a 1-based slip
bruteForceIndexOneBased(q) == scanVertices(q, 0, Infinity, 0) + 1

\* let minDist = Infinity; let nearestIdx = 0; the scan over the template
bruteForceIndex(q) == scanVertices(q, 0, Infinity, 0)

\* the fallback mapping: the nearest template vertex of every point
bruteForceMapping(positions) ==
    [i \in 1..Len(positions) |-> bruteForceIndex(positions[i])]

\* mappingData.mapping of the cache file, when there is one
CachedMappings == {<<1, 2>>}

\* the transfer of the decoder output to the points, and the viewer built
\* from it
transferredData(data, vertexMapping) ==
    LET n == Len(data.positions)
    IN [vertexCount |-> n,
        positions |-> data.positions,
        boneIndices |-> data.boneIndices,
        boneWeights |-> data.boneWeights,
        latents |-> [k \in 1..(n * LatentChannels) |->
                        latent32ch(vertexMapping[((k - 1) \div LatentChannels) + 1],
                                   (k - 1) % LatentChannels)],
        opacity |-> [i \in 1..n |-> templateValue(vertexMapping[i], 10)],
        scale |-> [i \in 1..n |-> templateValue(vertexMapping[i], 20)],
        rotation |-> [i \in 1..n |-> templateValue(vertexMapping[i], 30)]]

(***************************************************************************)
(* GVRM: the instance state, the loadAssets calls in flight and the frame  *)
(* loop (specification Spec).                                              *)
(***************************************************************************)
MaxLoads == 2

MaxTicks == 2

MaxInFlight == 2

LipLevels == {0, 250, 400, 1000}

Calls == 1..MaxLoads

NoViewer == <<>>

IdleLoad ==
    [pc |-> "idle", file |-> GoodFile, skip |-> FALSE, ret |-> "none",
     failedAt |-> "none", caller |-> "waiting", fallback |-> FALSE,
     mapping |-> <<>>]

\* a callback that does not request the next frame
requestsNone == 1 - 1

\* requestAnimationFrame(() => this.animate()), the first statement of
\* animate: the callbacks one run of animate requests
requestsAtEntry == 1

GvrmInit ==
    /\ loads = [c \in Calls |-> IdleLoad]
    /\ tdInitialized = FALSE
    /\ ieInitialized = FALSE
    /\ rfInitialized = FALSE
    /\ idEmbedding = 0
    /\ isReady = FALSE
    /\ viewer = 0
    /\ viewers = [c \in Calls |-> NoViewer]
    /\ sceneMeshes = <<>>
    /\ frameCount = 0
    /\ isFirstFrameProcessed = FALSE
    /\ lastRefinedRgb = 0
    /\ refineLog = <<>>
    /\ pending = {}
    /\ ticksOf = [c \in Calls |-> 0]
    /\ lipSyncLevel = 0
    /\ jawRotX = 0
    /\ display = [normFrom |-> 0, texture |-> 0]
    /\ vrmMatrices = resetPose
    /\ rafScheduled = requestsAtEntry

\* loadAssets(plyUrl) is called: it runs to its first await, PLYLoader.load
LoadAssets(c, f) ==
    /\ UNCHANGED offGvrm
    /\ loads[c].pc = "idle"
    /\ \A b \in Calls : b < c => loads[b].pc # "idle"
    /\ Cardinality({b \in Calls : loads[b].pc \notin {"idle", "returned"}}) < MaxInFlight
    /\ loads' = [loads EXCEPT ![c] = [@ EXCEPT !.pc = "ply", !.file = f]]
    /\ UNCHANGED <<instanceVars, frameVars, lipSyncLevel>>

\* the caller's continuation (concierge-controller): 'loaded' on true,
\* 'fallback' on false
callerBranch(ret) == IF ret = "true" THEN "loaded" ELSE "fallback"

\* a loadAssets without the catch block: the error reaches the caller
rethrown(load, stage) ==
    [load EXCEPT !.pc = "returned", !.ret = "throws", !.failedAt = stage,
                 !.caller = "catch"]

\* the catch block of loadAssets: return false
returnedFalse(load, stage) ==
    [load EXCEPT !.pc = "returned", !.ret = "false", !.failedAt = stage,
                 !.caller = callerBranch("false")]

\* PLYLoader.load settles: resolved with the data, or rejected (no vertex
\* count in the header, a read outside the buffer)
PlySettles(c) ==
    /\ UNCHANGED offGvrm
    /\ loads[c].pc = "ply"
    /\ loads' = [loads EXCEPT ![c] =
           IF PlyOutcome[loads[c].file].ok
           THEN [@ EXCEPT !.pc = "tdInit", !.skip = tdInitialized]
           ELSE returnedFalse(@, "ply")]
    /\ UNCHANGED <<instanceVars, frameVars, lipSyncLevel>>

\* templateDecoder.init resolves (at once when already initialized)
TdInitResolves(c) ==
    /\ UNCHANGED offGvrm
    /\ loads[c].pc = "tdInit"
    /\ tdInitialized' = TRUE
    /\ loads' = [loads EXCEPT ![c] = [@ EXCEPT !.pc = "ieInit", !.skip = ieInitialized]]
    /\ UNCHANGED <<ieInitialized, rfInitialized, idEmbedding, isReady, viewer,
                   viewers, sceneMeshes, frameVars, lipSyncLevel>>

\* imageEncoder.init resolves
IeInitResolves(c) ==
    /\ UNCHANGED offGvrm
    /\ loads[c].pc = "ieInit"
    /\ ieInitialized' = TRUE
    /\ loads' = [loads EXCEPT ![c] = [@ EXCEPT !.pc = "rfInit", !.skip = rfInitialized]]
    /\ UNCHANGED <<tdInitialized, rfInitialized, idEmbedding, isReady, viewer,
                   viewers, sceneMeshes, frameVars, lipSyncLevel>>

\* refiner.init resolves; the geometry data is there (the decoder is
\* initialized), so the source camera is fetched and parsed and the
\* feature extraction is started (the two camera awaits touch nothing of
\* the instance and are part of the "extract" stage)
RfInitResolves(c) ==
    /\ UNCHANGED offGvrm
    /\ loads[c].pc = "rfInit"
    /\ rfInitialized' = TRUE
    /\ loads' = [loads EXCEPT ![c] =
           IF tdInitialized THEN [@ EXCEPT !.pc = "extract", !.skip = FALSE]
           ELSE returnedFalse(@, "geometry")]
    /\ UNCHANGED <<tdInitialized, ieInitialized, idEmbedding, isReady, viewer,
                   viewers, sceneMeshes, frameVars, lipSyncLevel>>

InitStages == {"tdInit", "ieInit", "rfInit"}

\* a model's init rejects (it cannot when it returned at once); the error
\* is caught by loadAssets
InitRejects(c) ==
    /\ UNCHANGED offGvrm
    /\ loads[c].pc \in InitStages
    /\ ~loads[c].skip
    /\ loads' = [loads EXCEPT ![c] = returnedFalse(@, "init")]
    /\ UNCHANGED <<instanceVars, frameVars, lipSyncLevel>>

\* extractFeaturesWithSourceCamera resolves: this.idEmbedding is replaced
\* and templateDecoder.generate is started (generate and the fetch of the
\* vertex mapping touch nothing of the instance and are the "mapping" stage)
ExtractResolves(c) ==
    /\ UNCHANGED offGvrm
    /\ loads[c].pc = "extract"
    /\ idEmbedding' = c
    /\ loads' = [loads EXCEPT ![c] = [@ EXCEPT !.pc = "mapping"]]
    /\ UNCHANGED <<tdInitialized, ieInitialized, rfInitialized, isReady, viewer,
                   viewers, sceneMeshes, frameVars, lipSyncLevel>>

\* one of the awaits between the camera fetch and generate rejects
AssetRejects(c) ==
    /\ UNCHANGED offGvrm
    /\ loads[c].pc \in {"extract", "mapping"}
    /\ loads' = [loads EXCEPT ![c] = returnedFalse(@, "asset")]
    /\ UNCHANGED <<instanceVars, frameVars, lipSyncLevel>>

\* the rest of loadAssets once the mapping is known: the transfer, the new
\* viewer, scene.add, isReady = true, return true
finishLoad(c, vertexMapping, viaFallback) ==
    /\ viewers' = [viewers EXCEPT ![c] =
           NewGSViewer(transferredData(PlyOutcome[loads[c].file], vertexMapping))]
    /\ viewer' = c
    /\ sceneMeshes' = Append(sceneMeshes, c)
    /\ isReady' = TRUE
    /\ loads' = [loads EXCEPT ![c] =
           [@ EXCEPT !.pc = "returned", !.ret = "true",
                     !.caller = callerBranch("true"),
                     !.fallback = viaFallback, !.mapping = vertexMapping]]
    /\ UNCHANGED <<tdInitialized, ieInitialized, rfInitialized, idEmbedding,
                   frameVars, lipSyncLevel>>

\* fetch of vertex_mapping.json resolves with ok and its json() resolves:
\* the mapping of the cache file is used as it is
MappingParsed(c, m) ==
    /\ UNCHANGED offGvrm
    /\ loads[c].pc = "mapping"
    /\ finishLoad(c, m, FALSE)

\* the fetch rejects, the response is not ok, or json() rejects: the inner
\* catch computes the mapping by brute force
MappingMissing(c) ==
    /\ UNCHANGED offGvrm
    /\ loads[c].pc = "mapping"
    /\ finishLoad(c, bruteForceMapping(PlyOutcome[loads[c].file].positions), TRUE)

(***************************************************************************)
(* GVRM.animate and GVRM.updateLipSync                                     *)
(***************************************************************************)
\* the loop for (let i = 0; i < 8; i++) { viewer.updateLatentTile(i);
\* render; read back }: the viewer after passes i..7
RECURSIVE renderPasses(_, _)
renderPasses(gsv, i) ==
    IF i >= TileCount THEN gsv
    ELSE renderPasses(updateLatentTile(gsv, i), i + 1)

(***************************************************************************)
(* The render passes of a tick in detail (specification SpecRender).  A    *)
(* splat is drawn at its centre; a value multiplied by alpha is kept as    *)
(* the pair of the value and the opacity alpha comes from.                 *)
(***************************************************************************)
\* the texels of the render target (256 * 256 in the code)
MapPixels == 2

\* sigmoid(vOpacity) < 0.01, at the centre of the splat: discard
discarded(vOpacity) == vOpacity < -4595

\* value * alpha with alpha = sigmoid(vOpacity), kept as its two factors
premultiplied(value, vOpacity) == [value |-> value, opacity |-> vOpacity]

\* gl_FragColor = vec4(vFeature.rgb * alpha, alpha)
fragmentShader(vFeature, vOpacity) ==
    <<premultiplied(vFeature[1], vOpacity), premultiplied(vFeature[2], vOpacity),
      premultiplied(vFeature[3], vOpacity), premultiplied(1000, vOpacity)>>

\* the texel (0-based) the splat of point i covers
texelOf(i) == (i - 1) % MapPixels

\* what one mesh adds to component c of texel p: the fragments of its
\* points there, in draw order (additive blending: the sum is kept as the
\* sequence of its terms)
drawMesh(gsv, p, c) ==
    LET pts == SelectSeq([i \in 1..gsv.vertexCount |-> i],
                   LAMBDA i : texelOf(i) = p /\ ~discarded(gsv.opacityData[i]))
    IN [k \in 1..Len(pts) |->
           fragmentShader(gsv.latentTile[pts[k]], gsv.opacityData[pts[k]])[c + 1]]

RECURSIVE drawMeshes(_, _, _, _, _)
drawMeshes(vs, meshes, j, p, c) ==
    IF j > Len(meshes) THEN <<>>
    ELSE drawMesh(vs[meshes[j]], p, c) \o drawMeshes(vs, meshes, j + 1, p, c)

\* renderer.render(this.scene, this.camera) and readRenderTargetPixels:
\* every mesh of the scene is drawn; the pixels come back as RGBA per texel
renderScene(vs, meshes) ==
    [k \in 1..(MapPixels * 4) |->
        drawMeshes(vs, meshes, 1, (k - 1) \div 4, (k - 1) % 4)]

\* an offset that packs the passes one plane apart
baseOffsetPacked(i) == i * MapPixels

\* const baseOffset = i * 4 * 256 * 256
baseOffset(i) == i * 4 * MapPixels

\* new Float32Array(1 * 32 * 256 * 256)
NewCoarseFm == [k \in 1..(LatentChannels * MapPixels) |-> <<>>]

NoWrites == [k \in 1..(LatentChannels * MapPixels) |-> 0]

\* the copy loop of one pass: coarseFm[baseOffset + c * 256 * 256 + p] =
\* pixels[p * 4 + c]
copied(coarseFm, pixels, base) ==
    [k \in 1..Len(coarseFm) |->
        IF k - 1 \in base..(base + 4 * MapPixels - 1)
        THEN pixels[((k - 1 - base) % MapPixels) * 4
                    + ((k - 1 - base) \div MapPixels) + 1]
        ELSE coarseFm[k]]

counted(writes, base) ==
    [k \in 1..Len(writes) |->
        IF k - 1 \in base..(base + 4 * MapPixels - 1) THEN writes[k] + 1
        ELSE writes[k]]

\* the loop for (let i = 0; i < 8; i++) { viewer.updateLatentTile(i);
\* render; read back; copy }: passes i..7.  Each pass is logged with the
\* active tile of this.viewer and the clock reading of the bone matrices
\* of every mesh it drew.
RECURSIVE passLoop(_, _, _, _, _, _, _)
passLoop(vs, meshes, cur, i, coarseFm, writes, passes) ==
    IF i >= TileCount
    THEN [viewers |-> vs, coarseFm |-> coarseFm, writes |-> writes,
          passes |-> passes]
    ELSE LET vs2 == [vs EXCEPT ![cur] = updateLatentTile(@, i)]
             pixels == renderScene(vs2, meshes)
         IN passLoop(vs2, meshes, cur, i + 1,
                     copied(coarseFm, pixels, baseOffset(i)),
                     counted(writes, baseOffset(i)),
                     Append(passes,
                         [active |-> vs2[cur].latentTile,
                          bones |-> [j \in 1..Len(meshes) |->
                                        vs2[meshes[j]].boneMatrices.time],
                          pixels |-> pixels]))


\* no tick has rendered yet
NoFrame == [time |-> 0, passes |-> <<>>, coarseFm |-> <<>>, writes |-> <<>>]

MaxMeshes == 2

MaxRenderTicks == 2

\* the data loadAssets builds a viewer from: the valid file with the
\* cached or the computed vertex mapping
RenderData ==
    {transferredData(PlyOutcome[GoodFile], m) :
        m \in CachedMappings \cup {bruteForceMapping(PlyOutcome[GoodFile].positions)}}

\* a GVRM instance before its first loadAssets
RenderIdle ==
    /\ gv = [viewers |-> <<>>, viewer |-> 0, matrices |-> resetPose,
             lipSyncLevel |-> 0, frameCount |-> 0, returned |-> <<>>]
    /\ rendered = NoFrame

\* the end of a successful loadAssets: this.viewer = new GSViewer(...);
\* this.scene.add(this.viewer.mesh)
RenderAddViewer(data) ==
    /\ UNCHANGED offRender
    /\ Len(gv.viewers) < MaxMeshes
    /\ gv' = [gv EXCEPT !.viewers = Append(@, NewGSViewer(data)),
                        !.viewer = Len(gv.viewers) + 1]
    /\ UNCHANGED rendered

\* updateLipSync(level)
RenderSetLipSync(level) ==
    /\ UNCHANGED offRender
    /\ gv' = [gv EXCEPT !.lipSyncLevel = level]
    /\ UNCHANGED rendered

\* a frame callback of a ready instance from frameCount++ to the end of
\* the 8 passes
RenderTick ==
    /\ UNCHANGED offRender
    /\ gv.viewer # 0
    /\ gv.frameCount < MaxRenderTicks
    /\ LET time == gv.frameCount + 1
           pose == vrmUpdate(gv.matrices, gv.lipSyncLevel, time)
           out == passLoop([gv.viewers EXCEPT ![gv.viewer] = updateBones(@, pose)],
                           [j \in 1..Len(gv.viewers) |-> j], gv.viewer, 0,
                           NewCoarseFm, NoWrites, <<>>)
       IN /\ gv' = [gv EXCEPT !.frameCount = time, !.matrices = pose.table,
                              !.returned = Append(@, slice(pose.table)),
                              !.viewers = out.viewers]
          /\ rendered' = [time |-> time, passes |-> out.passes,
                          coarseFm |-> out.coarseFm, writes |-> out.writes]

RenderNext ==
    \/ \E data \in RenderData : RenderAddViewer(data)
    \/ \E level \in {0, 400, 1000} : RenderSetLipSync(level)
    \/ RenderTick

\* WebGLDisplay.display(data, frameCount): on frame 1 the range of the
\* shader is taken from the data; the texture is replaced
displayed(d, image, frame) ==
    [normFrom |-> IF frame = 1 THEN image ELSE d.normFrom, texture |-> image]

\* a frame callback while the instance has no viewer or is not ready: the
\* next frame is requested and the callback returns
AnimateIdle ==
    /\ UNCHANGED offGvrm
    /\ rafScheduled >= 1
    /\ viewer = 0 \/ ~isReady
    /\ rafScheduled' = rafScheduled - 1 + requestsAtEntry
    /\ UNCHANGED <<loads, instanceVars, frameCount, isFirstFrameProcessed,
                   lastRefinedRgb, refineLog, pending, ticksOf, jawRotX,
                   display, vrmMatrices, lipSyncLevel>>

\* a frame callback of a ready instance, up to its await (or to its end
\* when the first frame has been processed)
AnimateTick ==
    /\ UNCHANGED offGvrm
    /\ rafScheduled >= 1
    /\ viewer # 0 /\ isReady
    /\ frameCount < MaxTicks
    /\ rafScheduled' = rafScheduled - 1 + requestsAtEntry
    /\ frameCount' = frameCount + 1
    /\ jawRotX' = jawRotation(lipSyncLevel)
    /\ LET pose == vrmUpdate(vrmMatrices, lipSyncLevel, frameCount + 1)
       IN /\ vrmMatrices' = pose.table
          /\ viewers' = [viewers EXCEPT ![viewer] =
                 renderPasses(updateBones(@, pose), 0)]
    /\ ticksOf' = [ticksOf EXCEPT ![viewer] = @ + 1]
    /\ IF ~isFirstFrameProcessed
       THEN /\ refineLog' = Append(refineLog, viewer)
            /\ pending' = pending \cup {Len(refineLog) + 1}
            /\ UNCHANGED display
       ELSE /\ display' = IF lastRefinedRgb # 0
                          THEN displayed(display, lastRefinedRgb, frameCount + 1)
                          ELSE display
            /\ UNCHANGED <<refineLog, pending>>
    /\ UNCHANGED <<loads, tdInitialized, ieInitialized, rfInitialized,
                   idEmbedding, isReady, viewer, sceneMeshes,
                   isFirstFrameProcessed, lastRefinedRgb, lipSyncLevel>>

\* refiner.process of call k resolves: the callback resumes, stores the
\* image, sets isFirstFrameProcessed and displays
RefineResolves(k) ==
    /\ UNCHANGED offGvrm
    /\ k \in pending
    /\ pending' = pending \ {k}
    /\ lastRefinedRgb' = k
    /\ isFirstFrameProcessed' = TRUE
    /\ display' = displayed(display, k, frameCount)
    /\ UNCHANGED <<loads, instanceVars, frameCount, refineLog, ticksOf, jawRotX,
                   lipSyncLevel, vrmMatrices, rafScheduled>>

\* refiner.process of call k rejects: the callback ends with the error
RefineRejects(k) ==
    /\ UNCHANGED offGvrm
    /\ k \in pending
    /\ pending' = pending \ {k}
    /\ UNCHANGED <<loads, instanceVars, frameCount, isFirstFrameProcessed,
                   lastRefinedRgb, refineLog, ticksOf, jawRotX, display,
                   lipSyncLevel, vrmMatrices, rafScheduled>>

\* updateLipSync(level): this.vrm.setLipSync(level)
UpdateLipSync(level) ==
    /\ UNCHANGED offGvrm
    /\ lipSyncLevel' = level
    /\ UNCHANGED <<loads, instanceVars, frameVars>>

GvrmNext ==
    \/ \E c \in Calls, f \in GvrmFiles : LoadAssets(c, f)
    \/ \E c \in Calls : PlySettles(c)
    \/ \E c \in Calls : TdInitResolves(c)
    \/ \E c \in Calls : IeInitResolves(c)
    \/ \E c \in Calls : RfInitResolves(c)
    \/ \E c \in Calls : InitRejects(c)
    \/ \E c \in Calls : ExtractResolves(c)
    \/ \E c \in Calls : AssetRejects(c)
    \/ \E c \in Calls, m \in CachedMappings : MappingParsed(c, m)
    \/ \E c \in Calls : MappingMissing(c)
    \/ AnimateIdle
    \/ AnimateTick
    \/ \E k \in 1..MaxTicks : RefineResolves(k)
    \/ \E k \in 1..MaxTicks : RefineRejects(k)

(***************************************************************************)
(* AudioManager (scripts/chat/audio-manager.ts): startStreaming in its iOS *)
(* and its default form, stopStreaming, the messages of the worklet, the   *)
(* encodings of the chunks and the timers (specification SpecAudio).  A    *)
(* startStreaming call is suspended at its awaits; a node and a timer are  *)
(* named after the call that made them, a chunk after its place in the     *)
(* order of capture.                                                       *)
(***************************************************************************)
MaxStarts == 2

MaxChunks == 3

MaxStops == 2

\* if (this.audioBuffer.length > 48) this.audioBuffer.shift()
AudioBufferLimit == 48

Starts == 1..MaxStarts

NewCall == [pc |-> "idle", ctx |-> 0, arr |-> <<>>, idx |-> 0]

\* a call at one of these awaits has not yet sent 'start_stream' and seen
\* 'stream_ready' or its timeout
EarlyPcs == {"acquire", "addModule", "wait50", "wait200", "wait100", "ready"}

earlyCalls(cs) == {c \in Starts : cs[c].pc \in EarlyPcs}

\* socket.emit(type, ...) as the log sees it: the chunks sent, in order,
\* each with its sender (the flush of the buffer or the handler); whether
\* a 'start_stream' or an 'audio_chunk' was sent when stopStreaming was
\* the last call made; whether a chunk was sent while a call was before
\* its permission
emit(log, cs, type, chunk, via) ==
    [log EXCEPT
        !.sent = IF type = "audio_chunk"
                 THEN Append(@, [chunk |-> chunk, via |-> via]) ELSE @,
        !.lateEmit = @ \/ (log.stopped /\ type \in {"start_stream", "audio_chunk"}),
        !.earlyChunk = @ \/ (type = "audio_chunk" /\ earlyCalls(cs) # {})]

\* the for-of loop of the iOS flush: one 'audio_chunk' per buffered chunk
RECURSIVE emitAll(_, _, _, _)
emitAll(log, cs, buffer, k) ==
    IF k > Len(buffer) THEN log
    ELSE emitAll(emit(log, cs, "audio_chunk", buffer[k], "flush"), cs, buffer, k + 1)

\* this.canSendAudio = false; this.audioBuffer = []
resetSending(a) == [a EXCEPT !.canSendAudio = FALSE, !.audioBuffer = <<>>]

\* if (this.recordingTimer) { clearTimeout(...); this.recordingTimer = null }
clearRecordingTimer(a) ==
    IF a.recordingTimer = 0 THEN a
    ELSE [a EXCEPT !.timers = @ \ {a.recordingTimer}, !.recordingTimer = 0]

\* if (this.audioWorkletNode) { port.onmessage = null; disconnect(); = null }
releaseNode(a) ==
    IF a.audioWorkletNode = 0 THEN a
    ELSE [a EXCEPT !.listening = @ \ {a.audioWorkletNode}, !.audioWorkletNode = 0]

stopStreaming_iOS(a) == releaseNode(clearRecordingTimer(resetSending(a)))

\* the interval and the analyser are dropped and the context is closed:
\* the nodes of a closed context process no audio
stopVAD_Default(a) ==
    LET b == [a EXCEPT !.intervals = @ \ {a.vadCheckInterval},
                       !.vadCheckInterval = 0, !.analyser = FALSE]
    IN IF b.audioContext # 0
       THEN [b EXCEPT !.audioContext = 0, !.listening = {}]
       ELSE b

stopStreaming_Default(a) ==
    releaseNode(clearRecordingTimer(resetSending(stopVAD_Default(a))))

\* the form of the platform, as the timers call it
stopStreamingOf(a) ==
    IF a.isIOS THEN stopStreaming_iOS(a) ELSE stopStreaming_Default(a)

\* stopStreaming()
stopStreaming(a) == resetSending(stopStreamingOf(a))

\* the catch block of startStreaming_iOS / startStreaming_Default
catchBlock(a) == IF a.isIOS THEN releaseNode(resetSending(a)) ELSE resetSending(a)

\* the synchronous head of startStreaming: the flag and the buffer are
\* reset, the timer cleared, the node released, the context created
startEntry(a) ==
    LET b == releaseNode(clearRecordingTimer(resetSending(a)))
    IN IF ~b.isIOS /\ b.audioContext = 0
       THEN [b EXCEPT !.contexts = @ + 1, !.audioContext = b.contexts + 1]
       ELSE b

\* the tail of startStreaming_Default: the analyser, the interval of the
\* voice detection and the recording timer; createAnalyser and
\* source.connect throw when the context was closed or replaced
tailDefault(a, c, ctx) ==
    IF a.audioContext = 0 \/ a.audioContext # ctx THEN catchBlock(a)
    ELSE [a EXCEPT !.analyser = TRUE, !.vadCheckInterval = c,
                   !.intervals = @ \cup {c}, !.recordingTimer = c,
                   !.timers = @ \cup {c}]

tailPc(a, ctx) ==
    IF a.audioContext = 0 \/ a.audioContext # ctx THEN "threw" ELSE "returned"

NewAudioManager(ios) ==
    [isIOS |-> ios, connected |-> TRUE, canSendAudio |-> FALSE,
     audioBuffer |-> <<>>, audioWorkletNode |-> 0, listening |-> {},
     audioContext |-> 0, contexts |-> 0, recordingTimer |-> 0, timers |-> {},
     vadCheckInterval |-> 0, intervals |-> {}, analyser |-> FALSE,
     captured |-> 0, readers |-> {}]

NewLog ==
    [sent |-> <<>>, stopped |-> FALSE, stops |-> 0, lateEmit |-> FALSE,
     earlyChunk |-> FALSE, lateCallback |-> FALSE]

AudioIdle ==
    /\ au = NewAudioManager(FALSE)
    /\ auCalls = [c \in Starts |-> NewCall]
    /\ auLog = NewLog

AudioInit ==
    /\ au \in {NewAudioManager(ios) : ios \in BOOLEAN}
    /\ auCalls = [c \in Starts |-> NewCall]
    /\ auLog = NewLog

\* startStreaming(socket, ...) up to its first await: resume() or
\* getUserMedia (awaits true), or addModule when the iOS context is running
\* and the stream is live
AuStart(c, awaits) ==
    /\ UNCHANGED offAudio
    /\ auCalls[c].pc = "idle"
    /\ IF c = 1 THEN TRUE ELSE auCalls[c - 1].pc # "idle"
    /\ IF awaits THEN TRUE ELSE au.isIOS
    /\ au' = startEntry(au)
    /\ auCalls' = [auCalls EXCEPT ![c].pc = IF awaits THEN "acquire" ELSE "addModule"]
    /\ auLog' = [auLog EXCEPT !.stopped = FALSE]

\* resume() and getUserMedia have resolved: the source is made on the
\* context (this.audioContext!.sampleRate throws once it is null) and
\* addModule is awaited
AuAcquired(c) ==
    /\ UNCHANGED offAudio
    /\ auCalls[c].pc = "acquire"
    /\ IF ~au.isIOS /\ au.audioContext = 0
       THEN /\ au' = catchBlock(au)
            /\ auCalls' = [auCalls EXCEPT ![c].pc = "threw"]
       ELSE /\ au' = au
            /\ auCalls' = [auCalls EXCEPT ![c].pc = "addModule",
                                          ![c].ctx = au.audioContext]
    /\ UNCHANGED auLog

\* getUserMedia or addModule rejects: the catch block runs
AuRejects(c) ==
    /\ UNCHANGED offAudio
    /\ auCalls[c].pc \in {"acquire", "addModule"}
    /\ au' = catchBlock(au)
    /\ auCalls' = [auCalls EXCEPT ![c].pc = "threw"]
    /\ UNCHANGED auLog

\* addModule has resolved: this.audioWorkletNode = new AudioWorkletNode(...)
\* and the wait of 50 ms
AuModuleAdded(c) ==
    /\ UNCHANGED offAudio
    /\ auCalls[c].pc = "addModule"
    /\ IF ~au.isIOS /\ au.audioContext = 0
       THEN /\ au' = catchBlock(au)
            /\ auCalls' = [auCalls EXCEPT ![c].pc = "threw"]
       ELSE /\ au' = [au EXCEPT !.audioWorkletNode = c]
            /\ auCalls' = [auCalls EXCEPT ![c].pc = "wait50"]
    /\ UNCHANGED auLog

\* STEP 4 and 5: 'stop_stream' and a wait of 100 ms when the socket is
\* connected, else 'start_stream' at once
announce(c) ==
    IF au.connected
    THEN /\ auCalls' = [auCalls EXCEPT ![c].pc = "wait100"]
         /\ auLog' = emit(auLog, auCalls', "stop_stream", 0, "none")
    ELSE /\ auCalls' = [auCalls EXCEPT ![c].pc = "ready"]
         /\ auLog' = emit(auLog, auCalls', "start_stream", 0, "none")

\* the 50 ms are over: the handler is set on this.audioWorkletNode (a
\* TypeError when it is null) and the source connected to it (an error
\* when the context of the source was replaced); then the default form
\* waits 200 ms and the iOS form goes on to STEP 4
AuWait50Done(c) ==
    /\ UNCHANGED offAudio
    /\ auCalls[c].pc = "wait50"
    /\ IF au.audioWorkletNode = 0
          \/ (~au.isIOS /\ auCalls[c].ctx # au.audioContext)
       THEN /\ au' = catchBlock(au)
            /\ auCalls' = [auCalls EXCEPT ![c].pc = "threw"]
            /\ UNCHANGED auLog
       ELSE /\ au' = [au EXCEPT !.listening = @ \cup {au.audioWorkletNode}]
            /\ IF au.isIOS THEN announce(c)
               ELSE /\ auCalls' = [auCalls EXCEPT ![c].pc = "wait200"]
                    /\ UNCHANGED auLog

\* the 200 ms of the default form are over: STEP 4
AuWait200Done(c) ==
    /\ UNCHANGED offAudio
    /\ auCalls[c].pc = "wait200"
    /\ announce(c)
    /\ UNCHANGED au

\* the 100 ms are over: 'start_stream' is sent and 'stream_ready' awaited
AuWait100Done(c) ==
    /\ UNCHANGED offAudio
    /\ auCalls[c].pc = "wait100"
    /\ auCalls' = [auCalls EXCEPT ![c].pc = "ready"]
    /\ auLog' = emit(auLog, auCalls', "start_stream", 0, "none")
    /\ UNCHANGED au

\* 'stream_ready' has come or the timeout has passed.  The iOS form sets
\* canSendAudio, sends the buffered chunks, arms the recording timer and
\* returns; the default form waits another 200 ms
AuStreamReady(c) ==
    /\ UNCHANGED offAudio
    /\ auCalls[c].pc = "ready"
    /\ IF au.isIOS
       THEN /\ auCalls' = [auCalls EXCEPT ![c].pc = "returned"]
            /\ auLog' = emitAll(auLog, auCalls', au.audioBuffer, 1)
            /\ au' = [au EXCEPT !.canSendAudio = TRUE, !.audioBuffer = <<>>,
                                !.recordingTimer = c, !.timers = @ \cup {c}]
       ELSE /\ auCalls' = [auCalls EXCEPT ![c].pc = "wait200b"]
            /\ UNCHANGED <<au, auLog>>

\* the 200 ms are over: canSendAudio is set and the loop over the buffer
\* starts the encoding of its first chunk, or the tail runs when the
\* buffer is empty
AuWait200bDone(c) ==
    /\ UNCHANGED offAudio
    /\ auCalls[c].pc = "wait200b"
    /\ IF au.audioBuffer # <<>>
       THEN /\ au' = [au EXCEPT !.canSendAudio = TRUE]
            /\ auCalls' = [auCalls EXCEPT ![c].pc = "flush",
                                          ![c].arr = au.audioBuffer, ![c].idx = 1]
       ELSE /\ au' = tailDefault([au EXCEPT !.canSendAudio = TRUE], c, auCalls[c].ctx)
            /\ auCalls' = [auCalls EXCEPT ![c].pc = tailPc(au, auCalls[c].ctx)]
    /\ UNCHANGED auLog

\* the encoding of a buffered chunk has finished: it is sent and the loop
\* encodes the next one, or clears this.audioBuffer and runs the tail
AuFlushLoaded(c) ==
    /\ UNCHANGED offAudio
    /\ auCalls[c].pc = "flush"
    /\ IF auCalls[c].idx < Len(auCalls[c].arr)
       THEN /\ auCalls' = [auCalls EXCEPT ![c].idx = @ + 1]
            /\ au' = au
       ELSE /\ auCalls' = [auCalls EXCEPT ![c].pc = tailPc(au, auCalls[c].ctx),
                                          ![c].arr = <<>>, ![c].idx = 0]
            /\ au' = tailDefault([au EXCEPT !.audioBuffer = <<>>], c, auCalls[c].ctx)
    /\ auLog' = emit(auLog, auCalls', "audio_chunk",
                     auCalls[c].arr[auCalls[c].idx], "flush")

\* port.onmessage of a node: the chunk is dropped when the socket is not
\* connected, buffered (the oldest dropped past 48) while canSendAudio is
\* false, and else sent (iOS) or given to a FileReader (default)
AuWorkletMessage(n) ==
    /\ UNCHANGED offAudio
    /\ n \in au.listening
    /\ au.captured < MaxChunks
    /\ LET chunk == au.captured + 1
           a == [au EXCEPT !.captured = chunk]
           pushed == Append(au.audioBuffer, chunk)
       IN IF ~au.connected
          THEN au' = a /\ UNCHANGED auLog
          ELSE IF ~au.canSendAudio
          THEN /\ au' = [a EXCEPT !.audioBuffer =
                            IF Len(pushed) > AudioBufferLimit THEN Tail(pushed)
                            ELSE pushed]
               /\ UNCHANGED auLog
          ELSE IF au.isIOS
          THEN /\ au' = a
               /\ auLog' = emit(auLog, auCalls, "audio_chunk", chunk, "direct")
          ELSE /\ au' = [a EXCEPT !.readers = @ \cup {chunk}]
               /\ UNCHANGED auLog
    /\ UNCHANGED auCalls

\* reader.onload of a chunk the handler gave to a FileReader
AuReaderLoaded(k) ==
    /\ UNCHANGED offAudio
    /\ k \in au.readers
    /\ au' = [au EXCEPT !.readers = @ \ {k}]
    /\ auLog' = emit(auLog, auCalls, "audio_chunk", k, "direct")
    /\ UNCHANGED auCalls

\* stopStreaming()
AuStop ==
    /\ UNCHANGED offAudio
    /\ auLog.stops < MaxStops
    /\ au' = stopStreaming(au)
    /\ auLog' = [auLog EXCEPT !.stopped = TRUE, !.stops = @ + 1]
    /\ UNCHANGED auCalls

\* a callback of the manager's timers: stopStreaming_iOS/_Default() and
\* onStopCallback()
stopCallback(a) ==
    /\ au' = stopStreamingOf(a)
    /\ auLog' = [auLog EXCEPT !.lateCallback = @ \/ auLog.stopped]
    /\ UNCHANGED auCalls

\* the recording timer armed by call c fires (MAX_RECORDING_TIME)
AuTimerFires(c) ==
    /\ UNCHANGED offAudio
    /\ c \in au.timers
    /\ stopCallback([au EXCEPT !.timers = @ \ {c}])

\* the voice detection of the default form hears speech and then silence:
\* a tick of an armed interval arms the silence timer and it fires
AuVadSilence(c) ==
    /\ UNCHANGED offAudio
    /\ c \in au.intervals
    /\ au.analyser
    /\ stopCallback(au)

\* the socket loses or regains its connection
AuSocketToggle ==
    /\ UNCHANGED offAudio
    /\ au' = [au EXCEPT !.connected = ~@]
    /\ UNCHANGED <<auCalls, auLog>>

AudioNext ==
    \/ \E c \in Starts, awaits \in BOOLEAN : AuStart(c, awaits)
    \/ \E c \in Starts : AuAcquired(c)
    \/ \E c \in Starts : AuRejects(c)
    \/ \E c \in Starts : AuModuleAdded(c)
    \/ \E c \in Starts : AuWait50Done(c)
    \/ \E c \in Starts : AuWait200Done(c)
    \/ \E c \in Starts : AuWait100Done(c)
    \/ \E c \in Starts : AuStreamReady(c)
    \/ \E c \in Starts : AuWait200bDone(c)
    \/ \E c \in Starts : AuFlushLoaded(c)
    \/ \E n \in Starts : AuWorkletMessage(n)
    \/ \E k \in 1..MaxChunks : AuReaderLoaded(k)
    \/ AuStop
    \/ \E c \in Starts : AuTimerFires(c)
    \/ \E c \in Starts : AuVadSilence(c)
    \/ AuSocketToggle

Init == GvrmInit /\ PlyIdle /\ ViewerIdle /\ DisplayIdle /\ KdIdle /\ RenderIdle
    /\ AudioIdle

Next == GvrmNext

Spec == Init /\ [][Next]_vars

\* a loaded instance driven by lip-sync levels: the state after one
\* loadAssets call on GoodFile has returned true through the fallback
\* mapping
LoadedInit ==
    /\ loads = [c \in Calls |->
           IF c = 1
           THEN [IdleLoad EXCEPT !.pc = "returned", !.ret = "true",
                                 !.caller = callerBranch("true"),
                                 !.fallback = TRUE,
                                 !.mapping = bruteForceMapping(PlyOutcome[GoodFile].positions)]
           ELSE IdleLoad]
    /\ tdInitialized = TRUE
    /\ ieInitialized = TRUE
    /\ rfInitialized = TRUE
    /\ idEmbedding = 1
    /\ isReady = TRUE
    /\ viewer = 1
    /\ viewers = [c \in Calls |->
           IF c = 1
           THEN NewGSViewer(transferredData(PlyOutcome[GoodFile],
                    bruteForceMapping(PlyOutcome[GoodFile].positions)))
           ELSE NoViewer]
    /\ sceneMeshes = <<1>>
    /\ frameCount = 0
    /\ isFirstFrameProcessed = FALSE
    /\ lastRefinedRgb = 0
    /\ refineLog = <<>>
    /\ pending = {}
    /\ ticksOf = [c \in Calls |-> 0]
    /\ lipSyncLevel = 0
    /\ jawRotX = 0
    /\ display = [normFrom |-> 0, texture |-> 0]
    /\ vrmMatrices = resetPose
    /\ rafScheduled = requestsAtEntry

PoseNext ==
    \/ \E level \in LipLevels : UpdateLipSync(level)
    \/ AnimateTick
    \/ \E k \in 1..MaxTicks : RefineResolves(k)
    \/ \E k \in 1..MaxTicks : RefineRejects(k)

SpecPoseInit == LoadedInit /\ PlyIdle /\ ViewerIdle /\ DisplayIdle /\ KdIdle /\ RenderIdle
    /\ AudioIdle

SpecPose == SpecPoseInit /\ [][PoseNext]_vars

\* a frame callback of a ready instance is due (what enables AnimateTick)
TickDue == rafScheduled >= 1 /\ viewer # 0 /\ isReady /\ frameCount < MaxTicks

\* the browser runs a requested frame callback: weak fairness of
\* AnimateTick, WF_vars(AnimateTick), with its enabling condition written
\* out
FrameFairness == []<>(~TickDue) \/ []<><<AnimateTick>>_vars

\* the loaded instance with the browser running the callbacks it is asked
\* for
SpecPoseLive == SpecPoseInit /\ [][PoseNext]_vars /\ FrameFairness

\* the loader on its own
SpecPlyInit == PlyInit /\ GvrmInit /\ ViewerIdle /\ DisplayIdle /\ KdIdle /\ RenderIdle
    /\ AudioIdle

SpecPly == SpecPlyInit /\ [][PlyNext]_vars

\* the viewer on its own
SpecViewerInit == ViewerInit /\ GvrmInit /\ PlyIdle /\ DisplayIdle /\ KdIdle /\ RenderIdle
    /\ AudioIdle

SpecViewer == SpecViewerInit /\ [][ViewerNext]_vars

\* the display on its own
SpecDisplayInit ==
    DisplayIdle /\ GvrmInit /\ PlyIdle /\ ViewerIdle /\ KdIdle /\ RenderIdle
    /\ AudioIdle

SpecDisplay == SpecDisplayInit /\ [][DisplayNext]_vars

\* the tree on its own
SpecKdInit ==
    KdInit /\ GvrmInit /\ PlyIdle /\ ViewerIdle /\ DisplayIdle /\ RenderIdle
    /\ AudioIdle

SpecKd == SpecKdInit /\ [][KdNext]_vars

\* the render passes on their own
SpecRenderInit ==
    RenderIdle /\ GvrmInit /\ PlyIdle /\ ViewerIdle /\ DisplayIdle /\ KdIdle
    /\ AudioIdle

\* the audio manager on its own
SpecAudioInit ==
    AudioInit /\ GvrmInit /\ PlyIdle /\ ViewerIdle /\ DisplayIdle /\ KdIdle
    /\ RenderIdle

SpecAudio == SpecAudioInit /\ [][AudioNext]_vars

SpecRender == SpecRenderInit /\ [][RenderNext]_vars

(***************************************************************************)
(* Properties of the frame loop and of loadAssets.                         *)
(***************************************************************************)
\* the number of refiner.process calls made on the viewer of load v
refinesOf(v) == Cardinality({k \in 1..Len(refineLog) : refineLog[k] = v})

\* C1: for each asset load the refine step is invoked exactly once: once
\* the viewer of a load has been rendered by a tick, refiner.process has
\* been called exactly once for it, and never before.
Cex_C1 ==
    \A v \in Calls : refinesOf(v) = IF ticksOf[v] >= 1 THEN 1 ELSE 0

\* C5: a tick sets the local rotation X of the jaw to 0.5 * level for the
\* level stored by the last updateLipSync before it (0.5 rad for level 1,
\* 0 for level 0, never more than 0.5 rad), and updateLipSync by itself
\* only stores the level.
Thm_C5 ==
    [][/\ frameCount' # frameCount =>
            /\ 2 * jawRotX' = lipSyncLevel
            /\ jawRotX' <= 500
            /\ lipSyncLevel = 1000 => jawRotX' = 500
            /\ lipSyncLevel = 0 => jawRotX' = 0
            /\ viewers'[viewer].boneMatrices.jawX = jawRotX'
       /\ lipSyncLevel' # lipSyncLevel =>
            /\ jawRotX' = jawRotX
            /\ frameCount' = frameCount]_vars

\* a tick has consumed level 1.0 pushed after an earlier tick at another
\* level
Wit_C5 ==
    /\ frameCount = 2
    /\ lipSyncLevel = 1000
    /\ jawRotX = 500
    /\ viewers[viewer].boneMatrices.jawX = 500

\* C6: the loader rejects a header without the vertex-count token (it
\* does not resolve with an empty result), and a loadAssets call on such a
\* file returns false to a caller that takes its fallback branch, without
\* creating a viewer or making the instance ready.
Thm_C6 ==
    /\ ~PlyOutcome[BadFile].ok
    /\ \A c \in Calls :
          loads[c].file = BadFile /\ loads[c].pc \notin {"idle", "ply"} =>
              /\ loads[c].pc = "returned"
              /\ loads[c].ret = "false"
              /\ loads[c].failedAt = "ply"
              /\ loads[c].caller = "fallback"
              /\ viewers[c] = NoViewer
              /\ viewer # c
    /\ isReady => \E b \in Calls : loads[b].ret = "true" /\ loads[b].file # BadFile

\* a call on the malformed file has returned while the instance is not
\* ready
Wit_C6 ==
    \E c \in Calls :
        /\ loads[c].file = BadFile
        /\ loads[c].ret = "false"
        /\ ~isReady

\* C7: a loadAssets call in which the init of a model rejects returns
\* false (it does not throw), its caller takes the fallback branch, and the
\* call creates no viewer; as long as no call has returned true the
\* instance is not ready and no tick has rendered a pass or called the
\* refiner.
Thm_C7 ==
    /\ \A c \in Calls :
          loads[c].failedAt = "init" =>
              /\ loads[c].ret = "false"
              /\ loads[c].caller = "fallback"
              /\ viewers[c] = NoViewer
              /\ viewer # c
    /\ (\A b \in Calls : loads[b].ret # "true") =>
          /\ ~isReady
          /\ viewer = 0
          /\ frameCount = 0
          /\ refineLog = <<>>
          /\ sceneMeshes = <<>>
          /\ display.texture = 0

\* the init of the image encoder has rejected in a call (after the
\* decoder's init resolved), the call has returned false and no call has
\* returned true
Wit_C7 ==
    /\ \E c \in Calls : loads[c].failedAt = "init" /\ loads[c].ret = "false"
    /\ tdInitialized /\ ~ieInitialized
    /\ \A b \in Calls : loads[b].ret # "true"
    /\ ~isReady

\* C8: a loadAssets call whose vertex-mapping cache is missing returns
\* true with a viewer, and its mapping gives every point the index, in
\* 0..TEMPLATE_VERTEX_COUNT - 1, of a nearest template vertex.
Thm_C8 ==
    \A c \in Calls :
        loads[c].fallback =>
            /\ loads[c].ret = "true"
            /\ loads[c].caller = "loaded"
            /\ viewers[c] # NoViewer
            /\ Len(loads[c].mapping) = Len(PlyOutcome[loads[c].file].positions)
            /\ \A i \in 1..Len(loads[c].mapping) :
                  /\ loads[c].mapping[i] \in 0..(TEMPLATE_VERTEX_COUNT - 1)
                  /\ \A j \in 0..(TEMPLATE_VERTEX_COUNT - 1) :
                        distSq(PlyOutcome[loads[c].file].positions[i],
                               vTemplate(loads[c].mapping[i]))
                            <= distSq(PlyOutcome[loads[c].file].positions[i],
                                      vTemplate(j))

\* the second call went through the fallback and its viewer is the
\* current one
Wit_C8 ==
    /\ MaxLoads >= 2
    /\ loads[2].fallback
    /\ loads[2].mapping = <<0, 2>>
    /\ viewer = 2
    /\ isReady

(***************************************************************************)
(* Properties of the render passes and of the pose solver.                 *)
(***************************************************************************)
\* C14: in every tick of a ready pipeline the bone matrices are replaced
\* by a fresh pose solve before the first of the 8 passes, and no pass
\* reads matrices computed in a different tick: every mesh drawn by every
\* pass of the latest tick has the matrices solved at that tick's clock
\* reading.
Cex_C14 ==
    \A k \in 1..Len(rendered.passes) :
        \A j \in 1..Len(rendered.passes[k].bones) :
            rendered.passes[k].bones[j] = rendered.time

\* C15: the range of the display (uMinVal, uMaxVal) is captured exactly
\* once, from the first refined image that is displayed, and never changes
\* afterwards: the display call that shows the first image takes the range
\* from it, and no later step changes the range.
Cex_C15 ==
    [][/\ (display.texture = 0 /\ display'.texture # 0) =>
              display'.normFrom = display'.texture
       /\ display.texture # 0 => display'.normFrom = display.normFrom]_vars

\* entry (0-based plane pl, texel p) of a coarse feature map
planeAt(coarseFm, pl, p) == coarseFm[pl * MapPixels + p + 1]

\* C16: a tick makes 8 passes in tile order 0..7; the active tile of the
\* viewer is tile i when pass i renders; component c of the read-back of
\* pass i is plane 4i + c of the coarse feature map; each entry of the 32
\* planes is written exactly once; and the map is complete when the tick
\* calls the refiner.
Thm_C16 ==
    [][gv'.frameCount # gv.frameCount =>
          /\ Len(rendered'.passes) = TileCount
          /\ \A i \in 0..(TileCount - 1) :
                /\ rendered'.passes[i + 1].active =
                       tileOf(gv'.viewers[gv.viewer].latentData,
                              gv'.viewers[gv.viewer].vertexCount, i)
                /\ \A c \in 0..3 : \A p \in 0..(MapPixels - 1) :
                       planeAt(rendered'.coarseFm, 4 * i + c, p) =
                           rendered'.passes[i + 1].pixels[p * 4 + c + 1]
          /\ Len(rendered'.coarseFm) = LatentChannels * MapPixels
          /\ \A k \in 1..(LatentChannels * MapPixels) : rendered'.writes[k] = 1
          /\ rendered'.time = gv'.frameCount]_vars

\* a second tick has rendered a map whose planes 0 and 4 hold different
\* fragments
Wit_C16 ==
    /\ gv.frameCount = 2
    /\ Len(rendered.passes) = TileCount
    /\ planeAt(rendered.coarseFm, 0, 0) # <<>>
    /\ planeAt(rendered.coarseFm, 0, 0) # planeAt(rendered.coarseFm, 4, 0)

\* the fragments plane 4i + c would hold at texel p if every splat drawn
\* put its latent channel 4i + c there, multiplied by its alpha
RECURSIVE channelTerms(_, _, _, _, _)
channelTerms(vs, meshes, j, ch, p) ==
    IF j > Len(meshes) THEN <<>>
    ELSE LET gsv == vs[meshes[j]]
             pts == SelectSeq([q \in 1..gsv.vertexCount |-> q],
                        LAMBDA q : texelOf(q) = p /\ ~discarded(gsv.opacityData[q]))
         IN [k \in 1..Len(pts) |->
                premultiplied(
                    tileOf(gsv.latentData, gsv.vertexCount, ch \div 4)[pts[k]][(ch % 4) + 1],
                    gsv.opacityData[pts[k]])]
            \o channelTerms(vs, meshes, j + 1, ch, p)

\* C17: each pass outputs all four channels of the active tile multiplied
\* by alpha: plane 4i + c of the coarse feature map is the blend of latent
\* channel 4i + c of the splats, for c = 0..3.
Cex_C17 ==
    [][gv'.frameCount # gv.frameCount =>
          \A ch \in 0..(LatentChannels - 1) : \A p \in 0..(MapPixels - 1) :
              planeAt(rendered'.coarseFm, ch, p) =
                  channelTerms(gv'.viewers, [j \in 1..Len(gv.viewers) |-> j],
                               1, ch, p)]_vars

\* C18: the frame loop is never blocked or stopped by the refiner: every
\* callback requests the next one, so a callback is always due; ticks keep
\* occurring while a refine is pending and after a refine has failed (up
\* to the tick bound of the model); and once a refined image is stored a
\* tick shows the stored image without calling the refiner.
Thm_C18 ==
    /\ [](rafScheduled >= 1)
    /\ [][frameCount' # frameCount =>
            /\ rafScheduled' >= 1
            /\ lastRefinedRgb # 0 =>
                  /\ refineLog' = refineLog
                  /\ pending' = pending
                  /\ display'.texture = lastRefinedRgb]_vars
    /\ (frameCount < MaxTicks) ~> (frameCount = MaxTicks)
    /\ (pending # {} /\ frameCount < MaxTicks) ~> (frameCount > 1)

\* two ticks have run, the refine of the first has failed and that of the
\* second is still pending, and a callback is due
Wit_C18 ==
    /\ frameCount >= 2
    /\ Len(refineLog) >= 2
    /\ 1 \notin pending
    /\ 2 \in pending
    /\ lastRefinedRgb = 0
    /\ ~isFirstFrameProcessed
    /\ rafScheduled >= 1

\* the position of bone b in the order of the solve
orderOf(b) == CHOOSE k \in 1..Len(SolveOrder) : SolveOrder[k] = b

\* C19: in every pose solve the parent of each bone is resolved before
\* the bone; the global matrix of a bone with a parent is its parent's
\* global matrix of the same solve times its own pivot-relative local
\* matrix, and the root uses its local matrix alone.
Thm_C19 ==
    [][frameCount' # frameCount =>
          LET rot == localRotations(lipSyncLevel, frameCount')
          IN /\ \A b \in DOMAIN HIERARCHY : orderOf(HIERARCHY[b]) < orderOf(b)
             /\ \A b \in DOMAIN SKELETON_POS :
                   vrmMatrices'[b + 1] =
                       IF b \in DOMAIN HIERARCHY
                       THEN multiply(vrmMatrices'[HIERARCHY[b] + 1],
                                     getPivotMatrix(b, rot[b]))
                       ELSE getPivotMatrix(b, rot[b])]_vars

\* a solve with an open jaw: the jaw's matrix is the product of the chest,
\* head and jaw rotations, a shoulder's that of the chest and the shoulder
Wit_C19 ==
    /\ frameCount >= 1
    /\ jawRotX = 500
    /\ Len(vrmMatrices[22 + 1].factors) = 3
    /\ vrmMatrices[22 + 1].factors[3].rot = <<500, 0, 0>>
    /\ Len(vrmMatrices[16 + 1].factors) = 2
    /\ vrmMatrices[0 + 1] = IdentityMatrix

\* the table has 64 slots and identity in every slot that is not a bone
\* of the skeleton
identityOffSkeleton(table) ==
    /\ Len(table) = BoneSlots
    /\ \A i \in 0..(BoneSlots - 1) :
          i \notin DOMAIN SKELETON_POS => table[i + 1] = IdentityMatrix

\* C20: after any sequence of setLipSync and update calls the table that
\* update returns has exactly 64 slots, and every slot whose index is not
\* a bone of the skeleton holds the identity (this.matrices, and the copy
\* the viewer was given by the latest tick).
Thm_C20 ==
    /\ identityOffSkeleton(vrmMatrices)
    /\ frameCount >= 1 => identityOffSkeleton(viewers[viewer].boneMatrices.table)

\* two updates with different levels between them have run: the jaw slot
\* is posed and slot 1, outside the skeleton, is the identity
Wit_C20 ==
    /\ frameCount = 2
    /\ lipSyncLevel = 250
    /\ viewers[viewer].boneMatrices.table[22 + 1] # IdentityMatrix
    /\ viewers[viewer].boneMatrices.table[1 + 1] = IdentityMatrix
    /\ viewers[viewer].boneMatrices.jawX = 125

\* the lip-sync levels and clock readings the solver is asked about
SolveLevels == {0, 400, 1000}

\* C21: the pose solver is stateless across ticks: whatever calls came
\* before, a solve at a given clock reading and level gives the matrices a
\* fresh solver gives for them, the array a tick receives is that result,
\* and an array update() has returned is not altered by later solves.
Thm_C21 ==
    /\ [](\A level \in SolveLevels : \A time \in 1..MaxRenderTicks :
             vrmSolve(gv.matrices, level, time) = vrmSolve(resetPose, level, time))
    /\ [][/\ gv'.frameCount # gv.frameCount =>
               readArray(gv'.returned[Len(gv'.returned)], gv'.matrices) =
                   vrmSolve(resetPose, gv.lipSyncLevel, gv'.frameCount)
          /\ \A k \in 1..Len(gv.returned) :
               readArray(gv'.returned[k], gv'.matrices) =
                   readArray(gv.returned[k], gv.matrices)]_vars

\* two solves at different levels have run: the array of the first still
\* has the closed jaw, this.matrices has the open one
Wit_C21 ==
    /\ Len(gv.returned) = 2
    /\ readArray(gv.returned[1], gv.matrices)[22 + 1] # gv.matrices[22 + 1]
    /\ gv.lipSyncLevel = 1000
    /\ Len(gv.matrices[22 + 1].factors) = 3

\* the pivot of the T * R * T^-1 matrix the solver builds for a bone that
\* is rotated
pivotOf(boneIndex) == getPivotMatrix(boneIndex, <<1, 0, 0>>).factors[1].pivot

\* the bone positions the rigger detected while loading the cloud
detectedBones(result) ==
    detectBonePositions(result.positions,
                        computeBoundingBox(result.positions).size[2])

\* C22: the pivot about which the pose solver rotates each bone is that
\* bone's position as the rigger detected it for the loaded asset: for
\* every detected bone the pivot of its T * R * T^-1 matrix is the detected
\* centroid.
Cex_C22 ==
    PlyLoaded =>
        \A b \in BoneSet : pivotOf(b) = detectedBones(plyResult)[b].position

\* the neck centroid the rigger detected and the jaw-region points, in
\* ascending Y, it found for the loaded cloud
neckOf(result) == detectedBones(result)[12].position

jawRegionOf(result) ==
    SortByCoord(jawRegionPoints(finitePoints(result.positions), neckOf(result)), 2)

jawOf(result) == detectedBones(result)[22].position

\* C23: when fewer than 5 jaw candidates are found, or their centroid lies
\* below the neck centroid, the jaw position is the neck centroid moved by
\* +0.05 in Y and +0.08 in Z and the warning is given; otherwise it is the
\* candidates' centroid and no warning is given; in both cases the load
\* finishes with every point rigged.
Thm_C23 ==
    PlyLoaded =>
        LET neck == neckOf(plyResult)
            cand == jawCandidates(finitePoints(plyResult.positions), neck)
            few == Len(cand) < 5 \/ computeCentroid(cand)[2] < neck[2]
        IN /\ few => jawOf(plyResult) = <<neck[1], neck[2] + 50, neck[3] + 80>>
           /\ ~few => jawOf(plyResult) = computeCentroid(cand)
           /\ jawWarns(finitePoints(plyResult.positions), neck) <=> few
           /\ Len(plyResult.boneIndices) = declaredCount(plyFile)
           /\ \A i \in 1..declaredCount(plyFile) :
                 plyResult.boneIndices[i][1] \in BoneSet

\* a cloud with three points in the jaw region has been loaded: the jaw
\* is at the fixed offset from the neck, not at the centroid of the three
Wit_C23 ==
    /\ PlyLoaded
    /\ Len(jawRegionOf(plyResult)) = 3
    /\ neckOf(plyResult) = <<0, 1560, -100>>
    /\ jawOf(plyResult) = <<0, 1610, -20>>
    /\ computeCentroid(jawRegionOf(plyResult)) = <<0, 1584, 100>>

\* C24 as stated: for n points in the jaw region, the floor(0.2 * n) of
\* lowest Y are the ones whose centroid is the jaw position.
Cex_C24 ==
    (PlyLoaded /\ ~jawWarns(finitePoints(plyResult.positions), neckOf(plyResult)))
        => jawOf(plyResult) =
               computeCentroid(Slice(jawRegionOf(plyResult), 0,
                                     Len(jawRegionOf(plyResult)) \div 5))

\* C24: for n points in the jaw region, the max(10, floor(0.2 * n)) of
\* lowest Y, or all n when there are fewer, are the ones whose centroid is
\* the jaw position (when the fallback is not taken).
Thm_C24 ==
    (PlyLoaded /\ ~jawWarns(finitePoints(plyResult.positions), neckOf(plyResult)))
        => LET n == Len(jawRegionOf(plyResult))
               count == Min2(n, Max2(10, n \div 5))
           IN jawOf(plyResult) =
                  computeCentroid(SubSeq(jawRegionOf(plyResult), 1, count))

\* the cloud with more than 50 points in the jaw region has been loaded:
\* a fifth of them, more than 10 and fewer than all, make the jaw
Wit_C24 ==
    /\ PlyLoaded
    /\ Len(jawRegionOf(plyResult)) > 50
    /\ Len(jawRegionOf(plyResult)) \div 5 > 10
    /\ jawOf(plyResult)[2] = 1583 + (Len(jawRegionOf(plyResult)) \div 5 - 1) \div 2
    /\ jawOf(plyResult) # computeCentroid(jawRegionOf(plyResult))

\* the per-point data a viewer keeps from its construction on
storedData(gsv) ==
    [vertexCount |-> gsv.vertexCount, positions |-> gsv.positions,
     boneIndices |-> gsv.boneIndices, boneWeights |-> gsv.boneWeights,
     opacityData |-> gsv.opacityData, scaleData |-> gsv.scaleData,
     rotationData |-> gsv.rotationData, latentData |-> gsv.latentData]

\* C25: after a load has completed, a frame tick and an updateLipSync
\* call leave the stored per-point data of the viewer unchanged
\* (positions, bone indices, bone weights, opacity, scale, latents); a
\* tick changes of the viewer only the bone-matrix uniform and the active
\* tile, an updateLipSync call nothing of it.
Thm_C25 ==
    [][\A c \in Calls :
          viewers[c] # NoViewer =>
              /\ viewers'[c] # NoViewer
              /\ storedData(viewers'[c]) = storedData(viewers[c])
              /\ (DOMAIN viewers'[c]) = (DOMAIN viewers[c])
              /\ \A f \in (DOMAIN viewers[c]) \ {"boneMatrices", "latentTile"} :
                    viewers'[c][f] = viewers[c][f]
              /\ lipSyncLevel' # lipSyncLevel => viewers'[c] = viewers[c]]_vars

\* two ticks have run with the mouth open: the bone uniform and the active
\* tile are those of the last pass of the second tick, the stored data
\* those the viewer was built from
Wit_C25 ==
    /\ frameCount = 2
    /\ lipSyncLevel = 1000
    /\ viewers[1].boneMatrices.time = 2
    /\ viewers[1].boneMatrices.jawX = 500
    /\ viewers[1].latentTile = tileOf(viewers[1].latentData, viewers[1].vertexCount, 7)
    /\ viewers[1].latentTile # NewGSViewer(transferredData(PlyOutcome[GoodFile],
            bruteForceMapping(PlyOutcome[GoodFile].positions))).latentTile
    /\ storedData(viewers[1]) =
           storedData(NewGSViewer(transferredData(PlyOutcome[GoodFile],
               bruteForceMapping(PlyOutcome[GoodFile].positions))))

(***************************************************************************)
(* Properties of the audio manager (specification SpecAudio).              *)
(***************************************************************************)
\* C26: once stopStreaming() has been called and no startStreaming() after
\* it, no 'start_stream' and no 'audio_chunk' is emitted, canSendAudio is
\* false and the stop callback is not invoked, also when an earlier
\* startStreaming() was suspended at one of its awaits when stopStreaming()
\* ran.
Cex_C26 ==
    /\ auLog.stopped => ~au.canSendAudio
    /\ ~auLog.lateEmit
    /\ ~auLog.lateCallback

\* C27: no 'audio_chunk' is emitted while a startStreaming call has not
\* yet sent 'start_stream' and then seen 'stream_ready' or its timeout, and
\* the buffer of the chunks held back never has more than 48 entries.
Cex_C27 ==
    /\ ~auLog.earlyChunk
    /\ Len(au.audioBuffer) <= AudioBufferLimit

\* C28: in the default form a chunk that was buffered before the
\* permission to send is emitted before every chunk captured after it: no
\* chunk sent by the handler precedes a chunk of the flush that was
\* captured earlier.
Cex_C28 ==
    ~au.isIOS =>
        \A i \in 1..Len(auLog.sent) : \A j \in 1..Len(auLog.sent) :
            (i < j /\ auLog.sent[i].via = "direct" /\ auLog.sent[j].via = "flush")
                => auLog.sent[i].chunk < auLog.sent[j].chunk

(***************************************************************************)
(* Properties of the scene and of the displayed image.                     *)
(***************************************************************************)
\* C29: after any sequence of loadAssets calls the scene the 8 passes
\* render holds at most one splat mesh, the mesh of this.viewer, and
\* isReady is true only when there is such a viewer.
Cex_C29 ==
    /\ Len(sceneMeshes) <= 1
    /\ sceneMeshes # <<>> => sceneMeshes = <<viewer>>
    /\ isReady => viewer # 0

\* C30: the refined image is displayed in the layout the refiner produced:
\* for every pixel and colour channel the value display uploads is the
\* (cleaned and normalised) value of the refiner's output for that channel
\* and pixel, whichever layout branch run took.
Cex_C30 ==
    (wdCall # NoDisplayCall /\ wdCall.rawOutput # <<>>) =>
        \A p \in 0..(DisplayPixels - 1) : \A c \in 0..2 :
            wd.texture[p + 1][c + 1] =
                normalized(outputStats(wdCall.rawOutput),
                           outputValue(wdCall.rawOutput, wdCall.dims, c, p))

====
